---- MODULE Spec2Model ----
(***************************************************************************)
(* Model of github.com/a-kataev/tg: the typed request structs and their    *)
(* Validate methods, and the Client with its generic invoker API and the   *)
(* four remote operations (src/tg.go).                                     *)
(*                                                                         *)
(* Representation choices                                                  *)
(*  - a Text is represented by its length in bytes: the code only ever     *)
(*    evaluates  Text == ""  and  len(Text)  on it;                        *)
(*  - int64 identifiers are drawn from -MaxID..MaxID: the code only        *)
(*    compares them with 0;                                                *)
(*  - a Go error is a record [wrap, cause]: wrap is the sequence of        *)
(*    prefixes added by fmt.Errorf("<prefix>: %w", err), outermost first,  *)
(*    and cause is the innermost error value.                              *)
(***************************************************************************)
EXTENDS Integers, Sequences, FiniteSets, TLC

VARIABLES
    msg,     \* the request a caller holds and validates
    verr,    \* what the last Validate call on msg returned
    vcalls,  \* number of Validate calls made on msg
    client,  \* the constructed *Client: [http, endpoint]
    call,    \* per caller, the client operation it is executing
    ctor,    \* the call of NewClient in progress
    made,    \* the call of a message constructor and what it returned
    cmdr     \* the Commander, the arguments of the process and where Run is

vars == <<msg, verr, vcalls, client, call, ctor, made, cmdr>>

(***************************************************************************)
(* Bounds                                                                  *)
(***************************************************************************)
MaxID == 1

TextOver == 2

MaxValidateCalls == 2

(***************************************************************************)
(* Program constants                                                       *)
(***************************************************************************)
MaxTextSize == 4096

MarkdownV2ParseMode == "MarkdownV2"

MarkdownParseMode == "Markdown"

HTMLParseMode == "HTML"

parseModeListNoEmpty == <<MarkdownV2ParseMode, MarkdownParseMode, HTMLParseMode>>

parseModeList == <<MarkdownV2ParseMode, MarkdownParseMode, HTMLParseMode, "">>

(***************************************************************************)
(* Validation sentinels; nil is the absent error.                          *)
(***************************************************************************)
nil == "nil"

ErrUnknownParseMode == "unknown parse_mode"

ErrEmptyChatID == "empty chat_id"

ErrEmptyText == "empty text"

ErrTextTooLong == "text too long"

ErrIncorrectMessageThreadID == "incorrect message_thread_id"

ErrIncorrectMessageID == "incorrect message_id"

(***************************************************************************)
(* Input domains                                                           *)
(***************************************************************************)
IDs == (0 - MaxID)..MaxID

\* short texts and the texts around the MaxTextSize boundary
TextLens == (0..TextOver) \cup ((MaxTextSize - TextOver)..(MaxTextSize + TextOver))

\* every text length from empty to just past the limit
AllTextLens == 0..(MaxTextSize + TextOver)

ParseModes == {"", "MarkdownV2", "Markdown", "HTML", "markdown", "html", "MARKDOWNV2", "test"}

BaseMessages(lens) == [ChatID : IDs, Text : lens, ParseMode : ParseModes]

SendMessages(lens) ==
    [BaseMessage : BaseMessages(lens), MessageThreadID : IDs,
     DisableWebPagePreview : BOOLEAN, DisableNotification : BOOLEAN,
     ProtectContent : BOOLEAN]

EditMessages(lens) == [MessageID : IDs, BaseMessage : BaseMessages(lens)]

DeleteMessages == [ChatID : IDs, MessageID : IDs]

(***************************************************************************)
(* slices.Contains                                                         *)
(***************************************************************************)
Contains(list, x) == \E i \in 1..Len(list) : list[i] = x

(***************************************************************************)
(* func (m ParseMode) Validate() error                                     *)
(***************************************************************************)
ParseModeValidateNoEmpty(m) ==
    IF ~Contains(parseModeListNoEmpty, m) THEN ErrUnknownParseMode ELSE nil

ParseModeValidate(m) ==
    IF ~Contains(parseModeList, m) THEN ErrUnknownParseMode ELSE nil

(***************************************************************************)
(* func (bm *BaseMessage) Validate() error                                 *)
(***************************************************************************)
BaseMessageValidateOffByOne(bm) ==
    IF bm.ChatID = 0 THEN ErrEmptyChatID
    ELSE IF bm.Text = 0 THEN ErrEmptyText
    ELSE IF bm.Text >= MaxTextSize THEN ErrTextTooLong
    ELSE ParseModeValidate(bm.ParseMode)

BaseMessageValidateTextFirst(bm) ==
    IF bm.Text = 0 THEN ErrEmptyText
    ELSE IF bm.ChatID = 0 THEN ErrEmptyChatID
    ELSE IF bm.Text > MaxTextSize THEN ErrTextTooLong
    ELSE ParseModeValidate(bm.ParseMode)

BaseMessageValidate(bm) ==
    IF bm.ChatID = 0 THEN ErrEmptyChatID
    ELSE IF bm.Text = 0 THEN ErrEmptyText
    ELSE IF bm.Text > MaxTextSize THEN ErrTextTooLong
    ELSE ParseModeValidate(bm.ParseMode)

(***************************************************************************)
(* func (sm *SendMessage) Validate() error                                 *)
(***************************************************************************)
SendMessageValidateNoThreadCheck(sm) == BaseMessageValidate(sm.BaseMessage)

SendMessageValidate(sm) ==
    IF BaseMessageValidate(sm.BaseMessage) # nil
    THEN BaseMessageValidate(sm.BaseMessage)
    ELSE IF sm.MessageThreadID < 0 THEN ErrIncorrectMessageThreadID
    ELSE nil

(***************************************************************************)
(* func (em *EditMessage) Validate() error: the message id is checked      *)
(* before the embedded BaseMessage.                                        *)
(***************************************************************************)
EditMessageValidateBaseFirst(em) ==
    IF BaseMessageValidate(em.BaseMessage) # nil
    THEN BaseMessageValidate(em.BaseMessage)
    ELSE IF em.MessageID <= 0 THEN ErrIncorrectMessageID
    ELSE nil

EditMessageValidate(em) ==
    IF em.MessageID <= 0 THEN ErrIncorrectMessageID
    ELSE BaseMessageValidate(em.BaseMessage)

(***************************************************************************)
(* func (dm *DeleteMessage) Validate() error                               *)
(***************************************************************************)
DeleteMessageValidate(dm) ==
    IF dm.ChatID = 0 THEN ErrEmptyChatID
    ELSE IF dm.MessageID <= 0 THEN ErrIncorrectMessageID
    ELSE nil

(***************************************************************************)
(* A request under validation is a pair [kind, v]; Validate dispatches on  *)
(* the static type of the receiver.                                        *)
(***************************************************************************)
Tagged(kind, S) == {[kind |-> kind, v |-> x] : x \in S}

Messages(lens) ==
    Tagged("ParseMode", ParseModes)
      \cup Tagged("BaseMessage", BaseMessages(lens))
      \cup Tagged("SendMessage", SendMessages(lens))
      \cup Tagged("EditMessage", EditMessages(lens))
      \cup Tagged("DeleteMessage", DeleteMessages)

Validate(m) ==
    CASE m.kind = "ParseMode" -> ParseModeValidate(m.v)
      [] m.kind = "BaseMessage" -> BaseMessageValidate(m.v)
      [] m.kind = "SendMessage" -> SendMessageValidate(m.v)
      [] m.kind = "EditMessage" -> EditMessageValidate(m.v)
      [] m.kind = "DeleteMessage" -> DeleteMessageValidate(m.v)

\* field accessors that follow Go's promotion of embedded fields
IsRequest(m) == m.kind \in {"BaseMessage", "SendMessage", "EditMessage", "DeleteMessage"}

ChatIDOf(m) == IF m.kind \in {"SendMessage", "EditMessage"} THEN m.v.BaseMessage.ChatID ELSE m.v.ChatID

HasText(m) == m.kind \in {"BaseMessage", "SendMessage", "EditMessage"}

BaseOf(m) == IF m.kind = "BaseMessage" THEN m.v ELSE m.v.BaseMessage

TextOf(m) == BaseOf(m).Text

ParseModeOf(m) == BaseOf(m).ParseMode

(***************************************************************************)
(* Errors.  fmt.Errorf("<prefix>%w", err) keeps err reachable through      *)
(* Unwrap and prepends the prefix to its text.                             *)
(***************************************************************************)
NoErr == [wrap |-> <<>>, cause |-> [kind |-> "nil"]]

Sentinel(name) == [wrap |-> <<>>, cause |-> [kind |-> "sentinel", name |-> name]]

ErrorOf(cause) == [wrap |-> <<>>, cause |-> cause]

Wrap(prefix, e) == [wrap |-> <<prefix>> \o e.wrap, cause |-> e.cause]

IsErr(e) == e.cause.kind # "nil"

(***************************************************************************)
(* Request constructors and their options                                  *)
(***************************************************************************)
Tag(kind, x) == [kind |-> kind, v |-> x]

NilValue == [kind |-> "nil"]

ZeroBaseMessage == [ChatID |-> 0, Text |-> 0, ParseMode |-> ""]

ZeroSendMessage ==
    [BaseMessage |-> ZeroBaseMessage, MessageThreadID |-> 0,
     DisableWebPagePreview |-> FALSE, DisableNotification |-> FALSE,
     ProtectContent |-> FALSE]

ZeroEditMessage == [MessageID |-> 0, BaseMessage |-> ZeroBaseMessage]

\* an option value: the constructor that made it and the argument it captured
ParseModeSendOption(mode) == [opt |-> "ParseModeSendOption", mode |-> mode]

MessageThreadIDSendOption(threadID) == [opt |-> "MessageThreadIDSendOption", id |-> threadID]

DisableWebPagePreviewSendOption(disable) == [opt |-> "DisableWebPagePreviewSendOption", flag |-> disable]

DisableNotificationSendOption(disable) == [opt |-> "DisableNotificationSendOption", flag |-> disable]

ProtectContentSendOption(protect) == [opt |-> "ProtectContentSendOption", flag |-> protect]

ParseModeEditOption(mode) == [opt |-> "ParseModeEditOption", mode |-> mode]

\* an option the caller wrote: SendOption and EditOption are the function
\* types func(*SendMessage) and func(*EditMessage), so an option may assign
\* any field, the positional ones included
FuncOption(field, value) == [opt |-> "func", field |-> field, value |-> value]

\* opt(sm)
ApplySendOption(sm, o) ==
    CASE o.opt = "func" /\ o.field = "ChatID" -> [sm EXCEPT !.BaseMessage.ChatID = o.value]
      [] o.opt = "func" /\ o.field = "Text" -> [sm EXCEPT !.BaseMessage.Text = o.value]
      [] o.opt = "ParseModeSendOption" -> [sm EXCEPT !.BaseMessage.ParseMode = o.mode]
      [] o.opt = "MessageThreadIDSendOption" -> [sm EXCEPT !.MessageThreadID = o.id]
      [] o.opt = "DisableWebPagePreviewSendOption" -> [sm EXCEPT !.DisableWebPagePreview = o.flag]
      [] o.opt = "DisableNotificationSendOption" -> [sm EXCEPT !.DisableNotification = o.flag]
      [] o.opt = "ProtectContentSendOption" -> [sm EXCEPT !.ProtectContent = o.flag]

\* opt(em)
ApplyEditOption(em, o) ==
    CASE o.opt = "func" /\ o.field = "ChatID" -> [em EXCEPT !.BaseMessage.ChatID = o.value]
      [] o.opt = "func" /\ o.field = "MessageID" -> [em EXCEPT !.MessageID = o.value]
      [] o.opt = "func" /\ o.field = "Text" -> [em EXCEPT !.BaseMessage.Text = o.value]
      [] o.opt = "ParseModeEditOption" -> [em EXCEPT !.BaseMessage.ParseMode = o.mode]

RECURSIVE ApplySendOptions(_, _)
ApplySendOptions(sm, opts) ==
    IF opts = <<>> THEN sm
    ELSE ApplySendOptions(ApplySendOption(sm, Head(opts)), Tail(opts))

RECURSIVE ApplyEditOptions(_, _)
ApplyEditOptions(em, opts) ==
    IF opts = <<>> THEN em
    ELSE ApplyEditOptions(ApplyEditOption(em, Head(opts)), Tail(opts))

BuildSendMessageArgumentsFirst(chatID, text, opts) ==
    ApplySendOptions([ZeroSendMessage
                         EXCEPT !.BaseMessage.ChatID = chatID, !.BaseMessage.Text = text],
                     opts)

\* the message NewSendMessage has built when it calls Validate
BuildSendMessage(chatID, text, opts) ==
    [ApplySendOptions(ZeroSendMessage, opts)
        EXCEPT !.BaseMessage.ChatID = chatID, !.BaseMessage.Text = text]

BuildEditMessage(chatID, messageID, text, opts) ==
    [ApplyEditOptions(ZeroEditMessage, opts)
        EXCEPT !.BaseMessage.ChatID = chatID, !.MessageID = messageID,
               !.BaseMessage.Text = text]

BuildDeleteMessage(chatID, messageID) == [ChatID |-> chatID, MessageID |-> messageID]

NewSendMessageNoValidate(chatID, text, opts) ==
    [msg |-> Tag("SendMessage", BuildSendMessage(chatID, text, opts)), err |-> NoErr]

NewSendMessage(chatID, text, opts) ==
    LET sm == BuildSendMessage(chatID, text, opts)
        err == SendMessageValidate(sm)
    IN IF err # nil
       THEN [msg |-> NilValue, err |-> Wrap("SendMessage: ", Sentinel(err))]
       ELSE [msg |-> Tag("SendMessage", sm), err |-> NoErr]

NewEditMessage(chatID, messageID, text, opts) ==
    LET em == BuildEditMessage(chatID, messageID, text, opts)
        err == EditMessageValidate(em)
    IN IF err # nil
       THEN [msg |-> NilValue, err |-> Wrap("EditMessage: ", Sentinel(err))]
       ELSE [msg |-> Tag("EditMessage", em), err |-> NoErr]

NewDeleteMessage(chatID, messageID) ==
    LET dm == BuildDeleteMessage(chatID, messageID)
        err == DeleteMessageValidate(dm)
    IN IF err # nil
       THEN [msg |-> NilValue, err |-> Wrap("DeleteMessage: ", Sentinel(err))]
       ELSE [msg |-> Tag("DeleteMessage", dm), err |-> NoErr]

(***************************************************************************)
(* Result types                                                            *)
(***************************************************************************)
ZeroUser == [type |-> "User", ID |-> 0, FirstName |-> "", UserName |-> ""]

ZeroMessage == [type |-> "Message", MessageID |-> 0, Date |-> 0]

ZeroBool == [type |-> "bool", b |-> FALSE]

ZeroStruct == [type |-> "struct"]

ZeroOther == [type |-> "other"]

(***************************************************************************)
(* A value passed as `any`: what reflect sees of it.                       *)
(*   kind      "nil" for the nil interface, else the Kind of its type      *)
(*   elem      for a pointer, the Kind of the pointee type                 *)
(*   isnil     for a pointer, whether it is a nil pointer                  *)
(*   marshals  whether json.Marshal accepts it                             *)
(***************************************************************************)
AnyNil == [kind |-> "nil", elem |-> "none", isnil |-> TRUE, marshals |-> TRUE]

AnyInt == [kind |-> "int", elem |-> "none", isnil |-> FALSE, marshals |-> TRUE]

AnyString == [kind |-> "string", elem |-> "none", isnil |-> FALSE, marshals |-> TRUE]

PtrTo(elem) == [kind |-> "ptr", elem |-> elem, isnil |-> FALSE, marshals |-> TRUE]

NilPtrTo(elem) == [kind |-> "ptr", elem |-> elem, isnil |-> TRUE, marshals |-> TRUE]

\* a pointer to a struct with a field encoding/json does not support
PtrToUnsupportedStruct == [kind |-> "ptr", elem |-> "struct", isnil |-> FALSE, marshals |-> FALSE]

ErrValueNil == "value is nil"

ErrValueNotPtr == "value not ptr"

ErrValueNotStructOrBool == "value not struct or bool"

\* reflect.Value.Elem().Kind(): the zero Value of a nil pointer has Kind Invalid
ElemKind(v) == IF v.isnil THEN "invalid" ELSE v.elem

\* func validate(v any) error
validateNoElemCheck(v) ==
    IF v.kind = "nil" THEN ErrValueNil
    ELSE IF v.kind # "ptr" THEN ErrValueNotPtr
    ELSE nil

validate(v) ==
    IF v.kind = "nil" THEN ErrValueNil
    ELSE IF v.kind # "ptr" THEN ErrValueNotPtr
    ELSE IF ElemKind(v) # "struct" /\ ElemKind(v) # "bool" THEN ErrValueNotStructOrBool
    ELSE nil

(***************************************************************************)
(* Strings that matter character by character (the token, and every text   *)
(* that embeds it) are sequences of atoms: an atom is one character, or a  *)
(* literal chunk of the program text that is never split.                  *)
(***************************************************************************)
Digits == {"0", "1", "2", "3", "4", "5", "6", "7", "8", "9"}

Letters ==
    {"a", "b", "c", "d", "e", "f", "g", "h", "i", "j", "k", "l", "m",
     "n", "o", "p", "q", "r", "s", "t", "u", "v", "w", "x", "y", "z",
     "A", "B", "C", "D", "E", "F", "G", "H", "I", "J", "K", "L", "M",
     "N", "O", "P", "Q", "R", "S", "T", "U", "V", "W", "X", "Y", "Z"}

\* the class [\d\w\-]
TokenTailChars == Digits \cup Letters \cup {"_", "-"}

\* regexpToken.MatchString for ^([\d]+):([\d\w\-]+)$
regexpTokenMatchString(token) ==
    \E i \in 2..(Len(token) - 1) :
        /\ token[i] = ":"
        /\ \A j \in 1..(i - 1) : token[j] \in Digits
        /\ \A j \in (i + 1)..Len(token) : token[j] \in TokenTailChars

\* s occurs in text as a contiguous run of atoms
Occurs(s, text) ==
    \E i \in 0..(Len(text) - Len(s)) : \A j \in 1..Len(s) : text[i + j] = s[j]

(***************************************************************************)
(* Client construction                                                     *)
(***************************************************************************)
defaultAPIServer == "https://api.telegram.org"

defaultHTTPClient == "defaultHTTPClient"

ErrIncorrectScheme == "incorrect scheme"

ErrEmptyHost == "empty host"

ErrHTTPClientNil == "httpclient is nil"

ErrIncorrentToken == "incorrect token"

NoClient == [http |-> "nil", endpoint |-> <<>>]

\* url.ParseRequestURI on the base addresses the model supplies
ParseRequestURI(server) ==
    CASE server = "" -> [ok |-> FALSE, Scheme |-> "", Host |-> ""]
      [] server = "test" -> [ok |-> FALSE, Scheme |-> "", Host |-> ""]
      [] server = "test://" -> [ok |-> TRUE, Scheme |-> "test", Host |-> ""]
      [] server = "http://" -> [ok |-> TRUE, Scheme |-> "http", Host |-> ""]
      [] server = "http://test" -> [ok |-> TRUE, Scheme |-> "http", Host |-> "test"]
      [] server = "https://test" -> [ok |-> TRUE, Scheme |-> "https", Host |-> "test"]
      [] server = "/test" -> [ok |-> TRUE, Scheme |-> "", Host |-> ""]
      [] server = defaultAPIServer -> [ok |-> TRUE, Scheme |-> "https", Host |-> "api.telegram.org"]

WithAPIServer(server) == [opt |-> "WithAPIServer", server |-> server]

WithHTTPClient(httpClient) == [opt |-> "WithHTTPClient", http |-> httpClient]

\* opt(cl): the client after the option ran and the error it returned
ApplyOptionAssignFirst(cl, o) ==
    IF o.opt = "WithAPIServer"
    THEN LET url == ParseRequestURI(o.server)
             set == [cl EXCEPT !.endpoint = <<o.server>>]
         IN IF ~url.ok
            THEN [cl |-> set, err |-> Wrap("apiserver: ", ErrorOf([kind |-> "url.Error", server |-> o.server]))]
            ELSE IF url.Scheme # "http" /\ url.Scheme # "https"
            THEN [cl |-> set, err |-> Wrap("apiserver: url: ", Sentinel(ErrIncorrectScheme))]
            ELSE IF url.Host = ""
            THEN [cl |-> set, err |-> Wrap("apiserver: url: ", Sentinel(ErrEmptyHost))]
            ELSE [cl |-> set, err |-> NoErr]
    ELSE IF o.http = "nil"
         THEN [cl |-> cl, err |-> Sentinel(ErrHTTPClientNil)]
         ELSE [cl |-> [cl EXCEPT !.http = o.http], err |-> NoErr]

ApplyOption(cl, o) ==
    IF o.opt = "WithAPIServer"
    THEN LET url == ParseRequestURI(o.server)
         IN IF ~url.ok
            THEN [cl |-> cl, err |-> Wrap("apiserver: ", ErrorOf([kind |-> "url.Error", server |-> o.server]))]
            ELSE IF url.Scheme # "http" /\ url.Scheme # "https"
            THEN [cl |-> cl, err |-> Wrap("apiserver: url: ", Sentinel(ErrIncorrectScheme))]
            ELSE IF url.Host = ""
            THEN [cl |-> cl, err |-> Wrap("apiserver: url: ", Sentinel(ErrEmptyHost))]
            ELSE [cl |-> [cl EXCEPT !.endpoint = <<o.server>>], err |-> NoErr]
    ELSE IF o.http = "nil"
         THEN [cl |-> cl, err |-> Sentinel(ErrHTTPClientNil)]
         ELSE [cl |-> [cl EXCEPT !.http = o.http], err |-> NoErr]

\* the option loop: stops at the first option that fails
RECURSIVE ApplyOptions(_, _)
ApplyOptions(cl, options) ==
    IF options = <<>> THEN [cl |-> cl, err |-> NoErr]
    ELSE LET r == ApplyOption(cl, Head(options))
         IN IF IsErr(r.err) THEN r ELSE ApplyOptions(r.cl, Tail(options))

\* func NewClient(token string, options ...Option) (*Client, error)
NewClient(token, options) ==
    IF ~regexpTokenMatchString(token)
    THEN [client |-> NoClient, err |-> Wrap("Client: ", Sentinel(ErrIncorrentToken))]
    ELSE LET r == ApplyOptions([http |-> "nil", endpoint |-> <<defaultAPIServer>>], options)
         IN IF IsErr(r.err)
            THEN [client |-> NoClient, err |-> Wrap("Client: ", r.err)]
            ELSE [client |->
                     [http |-> IF r.cl.http = "nil" THEN defaultHTTPClient ELSE r.cl.http,
                      endpoint |-> r.cl.endpoint \o <<"/bot">> \o token \o <<"/">>],
                  err |-> NoErr]

(***************************************************************************)
(* json.Marshal of the request structs: the tagged fields, the omitempty   *)
(* ones left out when they hold their zero value.                          *)
(***************************************************************************)
MarshalBaseKeys(bm) == {"chat_id", "text"} \cup (IF bm.ParseMode # "" THEN {"parse_mode"} ELSE {})

MarshalSendMessage(sm) ==
    LET keys == MarshalBaseKeys(sm.BaseMessage)
                  \cup (IF sm.MessageThreadID # 0 THEN {"message_thread_id"} ELSE {})
                  \cup (IF sm.DisableWebPagePreview THEN {"disable_web_page_preview"} ELSE {})
                  \cup (IF sm.DisableNotification THEN {"disable_notification"} ELSE {})
                  \cup (IF sm.ProtectContent THEN {"protect_content"} ELSE {})
    IN [k \in keys |->
          CASE k = "chat_id" -> sm.BaseMessage.ChatID
            [] k = "text" -> sm.BaseMessage.Text
            [] k = "parse_mode" -> sm.BaseMessage.ParseMode
            [] k = "message_thread_id" -> sm.MessageThreadID
            [] k = "disable_web_page_preview" -> sm.DisableWebPagePreview
            [] k = "disable_notification" -> sm.DisableNotification
            [] k = "protect_content" -> sm.ProtectContent]

MarshalEditMessage(em) ==
    [k \in MarshalBaseKeys(em.BaseMessage) \cup {"message_id"} |->
          CASE k = "message_id" -> em.MessageID
            [] k = "chat_id" -> em.BaseMessage.ChatID
            [] k = "text" -> em.BaseMessage.Text
            [] k = "parse_mode" -> em.BaseMessage.ParseMode]

MarshalDeleteMessage(dm) == [chat_id |-> dm.ChatID, message_id |-> dm.MessageID]

Marshal(m) ==
    CASE m.kind = "SendMessage" -> MarshalSendMessage(m.v)
      [] m.kind = "EditMessage" -> MarshalEditMessage(m.v)
      [] m.kind = "DeleteMessage" -> MarshalDeleteMessage(m.v)
      [] OTHER -> <<>>

(***************************************************************************)
(* The HTTP exchange                                                       *)
(***************************************************************************)
NoBody == [kind |-> "none"]

NoRequest == [Method |-> "none"]

\* a method name url.Parse rejects: it holds an ASCII control character
BadMethod == "getMe<DEL>"

\* http.NewRequestWithContext(ctx, http.MethodPost, url, reqBody)
NewRequestWithContext(ctx, url, reqBody) ==
    IF ctx = "nil"
    THEN [req |-> NoRequest, err |-> ErrorOf([kind |-> "nil Context"])]
    ELSE IF url[Len(url)] = BadMethod
    THEN [req |-> NoRequest,
          err |-> ErrorOf([kind |-> "url.Error",
                           text |-> <<"parse \"">> \o url \o <<"\": net/url: invalid control character in URL">>])]
    ELSE [req |-> [Method |-> "POST", URL |-> url, ContentType |-> "", Body |-> reqBody],
          err |-> NoErr]

\* the part of Client.API that runs before c.http.Do: request validation and
\* marshalling, response target validation, construction of the HTTP request
APIPrepareRespFirst(cl, ctx, method, req, reqJSON, resp) ==
    LET none == NoRequest
    IN IF validate(resp) # nil
       THEN [req |-> none, err |-> Wrap("validate: resp ", Sentinel(validate(resp)))]
       ELSE IF req.kind # "nil" /\ validate(req) # nil
       THEN [req |-> none, err |-> Wrap("validate: req ", Sentinel(validate(req)))]
       ELSE IF req.kind # "nil" /\ ~req.marshals
       THEN [req |-> none, err |-> Wrap("request: json: ", ErrorOf([kind |-> "json.UnsupportedTypeError"]))]
       ELSE LET reqBody == IF req.kind # "nil" THEN [kind |-> "json", json |-> reqJSON] ELSE NoBody
                r == NewRequestWithContext(ctx, cl.endpoint \o <<method>>, reqBody)
            IN IF IsErr(r.err)
               THEN [req |-> none, err |-> Wrap("request: ", r.err)]
               ELSE [req |-> [r.req EXCEPT !.ContentType = "application/json"], err |-> NoErr]

APIPrepare(cl, ctx, method, req, reqJSON, resp) ==
    LET none == NoRequest
    IN IF req.kind # "nil" /\ validate(req) # nil
       THEN [req |-> none, err |-> Wrap("validate: req ", Sentinel(validate(req)))]
       ELSE IF req.kind # "nil" /\ ~req.marshals
       THEN [req |-> none, err |-> Wrap("request: json: ", ErrorOf([kind |-> "json.UnsupportedTypeError"]))]
       ELSE IF validate(resp) # nil
       THEN [req |-> none, err |-> Wrap("validate: resp ", Sentinel(validate(resp)))]
       ELSE LET reqBody == IF req.kind # "nil" THEN [kind |-> "json", json |-> reqJSON] ELSE NoBody
                r == NewRequestWithContext(ctx, cl.endpoint \o <<method>>, reqBody)
            IN IF IsErr(r.err)
               THEN [req |-> none, err |-> Wrap("request: ", r.err)]
               ELSE [req |-> [r.req EXCEPT !.ContentType = "application/json"], err |-> NoErr]

\* the errors a transport may return: a bare one, and the *url.Error of
\* net/http's client, whose text quotes the request URL
TransportErrors(httpReq) ==
    {<<"boom">>, <<"Post \"">> \o httpReq.URL \o <<"\": ", "boom">>}

\* response bodies: a reader that fails, the empty body, a non-JSON text, and
\* JSON objects given by their ok, result, error_code, description and
\* parameters.retry_after members ("absent" when the member is missing)
BodyObject(ok, result, code, description, retry) ==
    [kind |-> "object", ok |-> ok, result |-> result, error_code |-> code,
     description |-> description, retry_after |-> retry]

Bodies ==
    {[kind |-> "errReader"], [kind |-> "empty"], [kind |-> "text"],
     BodyObject("absent", "absent", 0, "", 0),
     BodyObject("absent", "absent", 0, "test", 0),
     BodyObject("false", "absent", 0, "test", 0),
     BodyObject("false", "absent", 429, "Too Many Requests", 5),
     BodyObject("false", "user", 400, "Bad Request", 0),
     BodyObject("string", "absent", 0, "", 0),
     BodyObject("string", "user", 0, "", 0),
     BodyObject("true", "absent", 0, "", 0),
     BodyObject("true", "user", 0, "", 0),
     BodyObject("true", "message", 0, "", 0),
     BodyObject("true", "true", 0, "", 0)}

\* the envelope's Result left unset: the result member is decoded into a
\* fresh value and the target is not touched
DecodeResultDetached(result, t) == [t |-> t, typeErr |-> FALSE]

\* decoding the result member into the value the response target points to:
\*   "user"     {"id":1,"first_name":"test"}
\*   "message"  {"message_id":7,"date":1}
\*   "true"     true
\* members that match no field of the target struct are ignored; a JSON value
\* of the wrong type leaves the target alone and is a type error
DecodeResult(result, t) ==
    CASE result = "absent" -> [t |-> t, typeErr |-> FALSE]
      [] result = "true" ->
            IF t.type = "bool" THEN [t |-> [t EXCEPT !.b = TRUE], typeErr |-> FALSE]
            ELSE [t |-> t, typeErr |-> TRUE]
      [] result = "user" ->
            IF t.type = "bool" THEN [t |-> t, typeErr |-> TRUE]
            ELSE IF t.type = "User"
            THEN [t |-> [t EXCEPT !.ID = 1, !.FirstName = "test"], typeErr |-> FALSE]
            ELSE [t |-> t, typeErr |-> FALSE]
      [] result = "message" ->
            IF t.type = "bool" THEN [t |-> t, typeErr |-> TRUE]
            ELSE IF t.type = "Message"
            THEN [t |-> [t EXCEPT !.MessageID = 7, !.Date = 1], typeErr |-> FALSE]
            ELSE [t |-> t, typeErr |-> FALSE]

ZeroResponseError ==
    [kind |-> "ResponseError", Ok |-> FALSE, ErrorCode |-> 0, Description |-> "", RetryAfter |-> 0]

\* json.NewDecoder(httpResp.Body).Decode(respBody), respBody.Result holding
\* the response target: the decoder goes on after a type error and reports
\* it at the end
JSONDecode(body, t) ==
    CASE body.kind = "errReader" ->
            [err |-> ErrorOf([kind |-> "errReader"]), env |-> ZeroResponseError, t |-> t]
      [] body.kind = "empty" ->
            [err |-> ErrorOf([kind |-> "io.EOF"]), env |-> ZeroResponseError, t |-> t]
      [] body.kind = "text" ->
            [err |-> ErrorOf([kind |-> "json.SyntaxError"]), env |-> ZeroResponseError, t |-> t]
      [] body.kind = "object" ->
            LET r == DecodeResult(body.result, t)
            IN [err |-> IF body.ok = "string" \/ r.typeErr
                        THEN ErrorOf([kind |-> "json.UnmarshalTypeError"])
                        ELSE NoErr,
                env |-> [kind |-> "ResponseError", Ok |-> (body.ok = "true"),
                         ErrorCode |-> body.error_code, Description |-> body.description,
                         RetryAfter |-> body.retry_after],
                t |-> r.t]

(***************************************************************************)
(* The text of an error, as a sequence of atoms                            *)
(***************************************************************************)
\* func (r ResponseError) Error() string
ResponseErrorErrorWithCode(r) == <<"error_code", ": ", r.Description>>

ResponseErrorError(r) == <<r.Description>>

CauseText(cause) ==
    CASE cause.kind = "nil" -> <<>>
      [] cause.kind = "sentinel" -> <<cause.name>>
      [] cause.kind = "transport" -> cause.text
      [] cause.kind = "url.Error" -> cause.text
      [] cause.kind = "redactError" -> cause.text
      [] cause.kind = "ResponseError" -> ResponseErrorError(cause)
      [] OTHER -> <<cause.kind>>

ErrorText(e) == e.wrap \o CauseText(e.cause)

\* the token NewClient put between "/bot" and "/" at the end of the endpoint
TokenOf(cl) == SubSeq(cl.endpoint, 3, Len(cl.endpoint) - 1)

(***************************************************************************)
(* Client operations.  A call is modelled in up to three steps, cut at its *)
(* two input/output points: everything up to c.http.Do, the exchange done  *)
(* by the transport, and the decoding of the response body.                *)
(***************************************************************************)
MaxOpts == 2

SeqsUpTo(S, n) == UNION {[1..k -> S] : k \in 0..n}

Ctxs == {"ctx", "nil"}

SendOptions ==
    {ParseModeSendOption("HTML"), ParseModeSendOption("test"),
     MessageThreadIDSendOption(0 - 1), MessageThreadIDSendOption(1),
     DisableWebPagePreviewSendOption(TRUE), DisableNotificationSendOption(TRUE),
     ProtectContentSendOption(TRUE)}

EditOptions == {ParseModeEditOption("HTML"), ParseModeEditOption("test")}

getMeMethod == "getMe"

sendMessageMethod == "sendMessage"

editMessageTextMethod == "editMessageText"

deleteMessageMethod == "deleteMessage"

IdleCall ==
    [pc |-> "idle", op |-> "none", built |-> NilValue, httpReq |-> NoRequest,
     doCount |-> 0, body |-> NoBody, closed |-> 0, req |-> AnyNil, target |-> AnyNil,
     tval |-> ZeroOther, err |-> NoErr, result |-> NilValue]

\* what the operation returns next to the error when it fails
FailResult(op) == IF op = "DeleteMessage" THEN ZeroBool ELSE NilValue

\* the operation returns what API returned, wrapped with its own name
FinishFormatted(cr, apiErr, tval) ==
    [cr EXCEPT !.pc = "done",
               !.tval = tval,
               !.err = IF cr.op = "API" \/ ~IsErr(apiErr) THEN apiErr
                       ELSE [wrap |-> <<cr.op \o ": ">> \o apiErr.wrap \o CauseText(apiErr.cause),
                             cause |-> [kind |-> "errorString"]],
               !.result = IF cr.op = "API" THEN NilValue
                          ELSE IF IsErr(apiErr) THEN FailResult(cr.op)
                          ELSE tval]

Finish(cr, apiErr, tval) ==
    [cr EXCEPT !.pc = "done",
               !.tval = tval,
               !.err = IF cr.op = "API" \/ ~IsErr(apiErr) THEN apiErr
                       ELSE Wrap(cr.op \o ": ", apiErr),
               !.result = IF cr.op = "API" THEN NilValue
                          ELSE IF IsErr(apiErr) THEN FailResult(cr.op)
                          ELSE tval]

\* the request constructor failed: the operation returns before calling API
FinishEarly(op, built, err) ==
    [IdleCall EXCEPT !.pc = "done", !.op = op, !.built = built,
                     !.err = Wrap(op \o ": ", err), !.result = FailResult(op)]

\* the operation calls API, which runs up to c.http.Do
EnterAPI(op, built, ctx, method, req, reqJSON, resp, tval) ==
    LET p == APIPrepare(client, ctx, method, req, reqJSON, resp)
        cr == [IdleCall EXCEPT !.op = op, !.built = built, !.req = req,
                               !.target = resp, !.tval = tval]
    IN IF IsErr(p.err)
       THEN Finish(cr, p.err, tval)
       ELSE [cr EXCEPT !.pc = "send", !.httpReq = p.req]

\* func (c *Client) GetMe(ctx) (*User, error)
ClientGetMeAppendsMethod(c) ==
    /\ call[c].pc = "idle"
    /\ \E ctx \in Ctxs :
         call' = [call EXCEPT ![c] =
                    EnterAPI("GetMe", NilValue, ctx, getMeMethod, AnyNil, <<>>,
                             PtrTo("struct"), ZeroUser)]
    /\ client' = [client EXCEPT !.endpoint = @ \o <<getMeMethod>>]
    /\ UNCHANGED <<msg, verr, vcalls, ctor, made, cmdr>>

ClientGetMe(c) ==
    /\ call[c].pc = "idle"
    /\ \E ctx \in Ctxs :
         call' = [call EXCEPT ![c] =
                    EnterAPI("GetMe", NilValue, ctx, getMeMethod, AnyNil, <<>>,
                             PtrTo("struct"), ZeroUser)]
    /\ UNCHANGED <<msg, verr, vcalls, client, ctor, made, cmdr>>

\* func (c *Client) SendMessage(ctx, chatID, text, opts...) (*Message, error)
ClientSendMessageOf(c, chatIDs, texts, optss) ==
    /\ call[c].pc = "idle"
    /\ \E ctx \in Ctxs, chatID \in chatIDs, text \in texts, opts \in optss :
         LET r == NewSendMessage(chatID, text, opts)
             built == Tag("SendMessage", BuildSendMessage(chatID, text, opts))
         IN call' = [call EXCEPT ![c] =
                       IF IsErr(r.err)
                       THEN FinishEarly("SendMessage", built, r.err)
                       ELSE EnterAPI("SendMessage", built, ctx, sendMessageMethod,
                                     PtrTo("struct"), Marshal(r.msg),
                                     PtrTo("struct"), ZeroMessage)]
    /\ UNCHANGED <<msg, verr, vcalls, client, ctor, made, cmdr>>

\* SendMessage called with any of the arguments of the model
ClientSendMessage(c) == ClientSendMessageOf(c, IDs, TextLens, SeqsUpTo(SendOptions, MaxOpts))

\* func (c *Client) EditMessage(ctx, chatID, messageID, text, opts...) (*Message, error)
ClientEditMessageWrongMethod(c) ==
    /\ call[c].pc = "idle"
    /\ \E ctx \in Ctxs, chatID \in IDs, messageID \in IDs, text \in TextLens,
          opts \in SeqsUpTo(EditOptions, MaxOpts) :
         LET r == NewEditMessage(chatID, messageID, text, opts)
             built == Tag("EditMessage", BuildEditMessage(chatID, messageID, text, opts))
         IN call' = [call EXCEPT ![c] =
                       IF IsErr(r.err)
                       THEN FinishEarly("EditMessage", built, r.err)
                       ELSE EnterAPI("EditMessage", built, ctx, sendMessageMethod,
                                     PtrTo("struct"), Marshal(r.msg),
                                     PtrTo("struct"), ZeroMessage)]
    /\ UNCHANGED <<msg, verr, vcalls, client, ctor, made, cmdr>>

ClientEditMessageOf(c, chatIDs, messageIDs, texts, optss) ==
    /\ call[c].pc = "idle"
    /\ \E ctx \in Ctxs, chatID \in chatIDs, messageID \in messageIDs, text \in texts,
          opts \in optss :
         LET r == NewEditMessage(chatID, messageID, text, opts)
             built == Tag("EditMessage", BuildEditMessage(chatID, messageID, text, opts))
         IN call' = [call EXCEPT ![c] =
                       IF IsErr(r.err)
                       THEN FinishEarly("EditMessage", built, r.err)
                       ELSE EnterAPI("EditMessage", built, ctx, editMessageTextMethod,
                                     PtrTo("struct"), Marshal(r.msg),
                                     PtrTo("struct"), ZeroMessage)]
    /\ UNCHANGED <<msg, verr, vcalls, client, ctor, made, cmdr>>

\* EditMessage called with any of the arguments of the model
ClientEditMessage(c) ==
    ClientEditMessageOf(c, IDs, IDs, TextLens, SeqsUpTo(EditOptions, MaxOpts))

\* func (c *Client) DeleteMessage(ctx, chatID, messageID) (bool, error)
ClientDeleteMessage(c) ==
    /\ call[c].pc = "idle"
    /\ \E ctx \in Ctxs, chatID \in IDs, messageID \in IDs :
         LET r == NewDeleteMessage(chatID, messageID)
             built == Tag("DeleteMessage", BuildDeleteMessage(chatID, messageID))
         IN call' = [call EXCEPT ![c] =
                       IF IsErr(r.err)
                       THEN FinishEarly("DeleteMessage", built, r.err)
                       ELSE EnterAPI("DeleteMessage", built, ctx, deleteMessageMethod,
                                     PtrTo("struct"), Marshal(r.msg),
                                     PtrTo("bool"), ZeroBool)]
    /\ UNCHANGED <<msg, verr, vcalls, client, ctor, made, cmdr>>

\* the values a caller of the exported API passes as req and resp
AnyValues ==
    {AnyNil, AnyInt, AnyString, PtrTo("struct"), PtrTo("bool"), PtrTo("string"),
     NilPtrTo("struct"), PtrToUnsupportedStruct}

\* the value a response target points to
Pointee(v) ==
    IF v.kind = "ptr" /\ ~v.isnil
    THEN (CASE v.elem = "struct" -> ZeroStruct [] v.elem = "bool" -> ZeroBool [] OTHER -> ZeroOther)
    ELSE ZeroOther

\* the values a response target may point to: a pointer to a struct may be a
\* *User, a *Message or a pointer to a struct with no field
Pointees(v) ==
    IF Pointee(v) = ZeroStruct THEN {ZeroStruct, ZeroUser, ZeroMessage} ELSE {Pointee(v)}

\* func (c *Client) API(ctx, method, req, resp any) error, called directly
ClientAPI(c) ==
    /\ call[c].pc = "idle"
    /\ \E ctx \in Ctxs, method \in {getMeMethod, BadMethod}, req \in AnyValues, resp \in AnyValues :
         \E tval \in Pointees(resp) :
            call' = [call EXCEPT ![c] =
                       EnterAPI("API", NilValue, ctx, method, req, <<>>, resp, tval)]
    /\ UNCHANGED <<msg, verr, vcalls, client, ctor, made, cmdr>>

\* c.http.Do(httpReq) returns an error: API returns it wrapped
HTTPDoFailRetry(c) ==
    /\ call[c].pc = "send"
    /\ call[c].doCount < 2
    /\ \E text \in TransportErrors(call[c].httpReq) :
         call' = [call EXCEPT ![c].doCount = @ + 1]
    /\ UNCHANGED <<msg, verr, vcalls, client, ctor, made, cmdr>>

HTTPDoFail(c) ==
    /\ call[c].pc = "send"
    /\ \E text \in TransportErrors(call[c].httpReq) :
         call' = [call EXCEPT ![c] =
                    Finish([call[c] EXCEPT !.doCount = @ + 1],
                           Wrap("request: ", ErrorOf([kind |-> "transport", text |-> text])),
                           call[c].tval)]
    /\ UNCHANGED <<msg, verr, vcalls, client, ctor, made, cmdr>>

\* c.http.Do(httpReq) returns a response
HTTPDoRespond(c) ==
    /\ call[c].pc = "send"
    /\ \E body \in Bodies :
         call' = [call EXCEPT ![c].pc = "recv", ![c].doCount = @ + 1, ![c].body = body]
    /\ UNCHANGED <<msg, verr, vcalls, client, ctor, made, cmdr>>

\* the rest of API: the body is decoded into the envelope and, by the
\* deferred call, closed
APIDecodeCloseOnSuccess(c) ==
    /\ call[c].pc = "recv"
    /\ LET d == JSONDecode(call[c].body, call[c].tval)
           cr == [call[c] EXCEPT !.closed = @ + 1]
       IN call' = [call EXCEPT ![c] =
                     IF IsErr(d.err) THEN Finish(call[c], Wrap("response: json: ", d.err), d.t)
                     ELSE IF ~d.env.Ok THEN Finish(call[c], Wrap("response: ", ErrorOf(d.env)), d.t)
                     ELSE Finish(cr, NoErr, d.t)]
    /\ UNCHANGED <<msg, verr, vcalls, client, ctor, made, cmdr>>

APIDecodeOkFirst(c) ==
    /\ call[c].pc = "recv"
    /\ LET d == JSONDecode(call[c].body, call[c].tval)
           cr == [call[c] EXCEPT !.closed = @ + 1]
       IN call' = [call EXCEPT ![c] =
                     IF ~d.env.Ok THEN Finish(cr, Wrap("response: ", ErrorOf(d.env)), d.t)
                     ELSE IF IsErr(d.err) THEN Finish(cr, Wrap("response: json: ", d.err), d.t)
                     ELSE Finish(cr, NoErr, d.t)]
    /\ UNCHANGED <<msg, verr, vcalls, client, ctor, made, cmdr>>

APIDecodeIgnoreOk(c) ==
    /\ call[c].pc = "recv"
    /\ LET d == JSONDecode(call[c].body, call[c].tval)
           cr == [call[c] EXCEPT !.closed = @ + 1]
       IN call' = [call EXCEPT ![c] =
                     IF IsErr(d.err) THEN Finish(cr, Wrap("response: json: ", d.err), d.t)
                     ELSE Finish(cr, NoErr, d.t)]
    /\ UNCHANGED <<msg, verr, vcalls, client, ctor, made, cmdr>>

APIDecode(c) ==
    /\ call[c].pc = "recv"
    /\ LET d == JSONDecode(call[c].body, call[c].tval)
           cr == [call[c] EXCEPT !.closed = @ + 1]
       IN call' = [call EXCEPT ![c] =
                     IF IsErr(d.err) THEN Finish(cr, Wrap("response: json: ", d.err), d.t)
                     ELSE IF ~d.env.Ok THEN Finish(cr, Wrap("response: ", ErrorOf(d.env)), d.t)
                     ELSE Finish(cr, NoErr, d.t)]
    /\ UNCHANGED <<msg, verr, vcalls, client, ctor, made, cmdr>>

\* the caller has taken the result; it may call again
Return(c) ==
    /\ call[c].pc = "done"
    /\ call' = [call EXCEPT ![c] = IdleCall]
    /\ UNCHANGED <<msg, verr, vcalls, client, ctor, made, cmdr>>

(***************************************************************************)
(* The earlier revision of the package (type TG, src/unnamed/part_004):    *)
(* NewTG does not check the token, there are two operations, and a         *)
(* transport error is wrapped in a redactError, whose text has every match *)
(* of regexpBotToken replaced.                                             *)
(***************************************************************************)
Alnum == Digits \cup Letters

\* the last index of the longest run of atoms of S that starts at text[i]
\* (i - 1 when text[i] is not in S)
RunEnd(text, i, S) ==
    CHOOSE j \in (i - 1)..Len(text) :
        /\ \A k \in i..j : text[k] \in S
        /\ j = Len(text) \/ text[j + 1] \notin S

\* the index of the last atom of the match of /bot([0-9]+):([a-zA-Z0-9]+)/
\* that starts at text[i], 0 when none starts there
regexpBotTokenMatchEnd(text, i) ==
    IF text[i] # "/bot" THEN 0
    ELSE LET d == RunEnd(text, i + 1, Digits)
         IN IF d < i + 1 \/ d + 1 > Len(text) \/ text[d + 1] # ":" THEN 0
            ELSE LET a == RunEnd(text, d + 2, Alnum)
                 IN IF a < d + 2 \/ a + 1 > Len(text) \/ text[a + 1] # "/" THEN 0
                    ELSE a + 1

\* regexpBotToken.ReplaceAllString(text[i..], "/bot*****/")
RECURSIVE regexpBotTokenReplaceAll(_, _)
regexpBotTokenReplaceAll(text, i) ==
    IF i > Len(text) THEN <<>>
    ELSE IF regexpBotTokenMatchEnd(text, i) > 0
    THEN <<"/bot*****/">> \o regexpBotTokenReplaceAll(text, regexpBotTokenMatchEnd(text, i) + 1)
    ELSE <<text[i]>> \o regexpBotTokenReplaceAll(text, i + 1)

\* newRedactError(err): Error() redacts the text of err
newRedactError(text) ==
    ErrorOf([kind |-> "redactError", text |-> regexpBotTokenReplaceAll(text, 1), err |-> text])

\* func NewTG(token string, options ...Option) (*TG, error), without options
NewTG(token) ==
    [http |-> defaultHTTPClient, endpoint |-> <<defaultAPIServer>> \o <<"/bot">> \o token \o <<"/">>]

\* func (t *TG) makeResponse(resp, result) error
makeResponse(body, t) ==
    LET d == JSONDecode(body, t)
    IN IF IsErr(d.err) THEN [err |-> Wrap("makeResponse: body: ", d.err), t |-> d.t]
       ELSE IF ~d.env.Ok THEN [err |-> ErrorOf(d.env), t |-> d.t]
       ELSE [err |-> NoErr, t |-> d.t]

\* the operation of TG named op, from makeRequest to its return; the
\* transport's answer is the error text failure or else the body
TGOperation(op, method, ctx, reqBody, tval, fails, failure, body) ==
    LET r == NewRequestWithContext(ctx, client.endpoint \o <<method>>, reqBody)
        cr == [IdleCall EXCEPT !.pc = "done", !.op = op, !.tval = tval]
    IN IF IsErr(r.err)
       THEN [cr EXCEPT !.err = Wrap(op \o ": ", Wrap("makeMessage: request: ", r.err))]
       ELSE LET sent == [cr EXCEPT !.httpReq = [r.req EXCEPT !.ContentType = "application/json"],
                                   !.doCount = 1]
            IN IF fails
               THEN [sent EXCEPT !.err = Wrap(op \o ": ", Wrap("http: ", newRedactError(failure)))]
               ELSE LET m == makeResponse(body, tval)
                    IN [sent EXCEPT !.body = body, !.closed = 1, !.tval = m.t,
                                    !.err = IF IsErr(m.err) THEN Wrap(op \o ": ", m.err) ELSE NoErr,
                                    !.result = IF IsErr(m.err) THEN NilValue ELSE m.t]

\* func (t *TG) GetMe(ctx) (*User, error)
TGGetMe(c) ==
    /\ call[c].pc = "idle"
    /\ \E ctx \in Ctxs, fails \in BOOLEAN, body \in Bodies :
         \E failure \in TransportErrors([URL |-> client.endpoint \o <<"getMe">>]) :
            call' = [call EXCEPT ![c] =
                       TGOperation("GetMe", "getMe", ctx, NoBody, ZeroUser, fails, failure, body)]
    /\ UNCHANGED <<msg, verr, vcalls, client, ctor, made, cmdr>>

\* func (t *TG) SendMessage(ctx, chatID, text) (*Message, error): makeMessage
\* marshals the Chat, whose three fields are all omitempty
TGSendMessage(c) ==
    /\ call[c].pc = "idle"
    /\ \E ctx \in Ctxs, chatID \in IDs, text \in TextLens, fails \in BOOLEAN, body \in Bodies :
         \E failure \in TransportErrors([URL |-> client.endpoint \o <<"sendMessage">>]) :
            call' = [call EXCEPT ![c] =
                       TGOperation("SendMessage", "sendMessage", ctx,
                                   [kind |-> "json",
                                    json |-> [k \in (IF chatID # 0 THEN {"chat_id"} ELSE {})
                                                      \cup (IF text # 0 THEN {"text"} ELSE {})
                                                      \cup {"parse_mode"} |->
                                                CASE k = "chat_id" -> chatID
                                                  [] k = "text" -> text
                                                  [] k = "parse_mode" -> MarkdownParseMode]],
                                   ZeroMessage, fails, failure, body)]
    /\ UNCHANGED <<msg, verr, vcalls, client, ctor, made, cmdr>>

(***************************************************************************)
(* NewClient step by step: the token check, one step for each option the   *)
(* loop invokes, and the completion.  ctor.invoked lists the options that  *)
(* have been called, ctor.client is the Client under construction and      *)
(* ctor.result the *Client returned.                                       *)
(***************************************************************************)
NoCtor ==
    [pc |-> "none", token |-> <<>>, options |-> <<>>, invoked |-> <<>>,
     client |-> NoClient, err |-> NoErr, result |-> NoClient]

\* NewClient(token, options...) has been called and has not run yet
CtorStart(token, options) == [NoCtor EXCEPT !.pc = "start", !.token = token, !.options = options]

\* the token check and, when it passes, new(Client) with the default endpoint
NewClientNoTokenCheck ==
    /\ ctor.pc = "start"
    /\ ctor' = [ctor EXCEPT !.pc = "loop",
                            !.client = [http |-> "nil", endpoint |-> <<defaultAPIServer>>]]
    /\ UNCHANGED <<msg, verr, vcalls, client, call, made, cmdr>>

NewClientCheckTokenAppendsToken ==
    /\ ctor.pc = "start"
    /\ ctor' = IF ~regexpTokenMatchString(ctor.token)
               THEN [ctor EXCEPT !.pc = "done",
                                 !.err = Wrap("Client: ", Sentinel(ErrIncorrentToken))]
               ELSE [ctor EXCEPT !.pc = "loop",
                                 !.client = [http |-> "nil",
                                             endpoint |-> <<defaultAPIServer>> \o <<"/bot">>
                                                            \o ctor.token \o <<"/">>]]
    /\ UNCHANGED <<msg, verr, vcalls, client, call, made, cmdr>>

NewClientCheckToken ==
    /\ ctor.pc = "start"
    /\ ctor' = IF ~regexpTokenMatchString(ctor.token)
               THEN [ctor EXCEPT !.pc = "done",
                                 !.err = Wrap("Client: ", Sentinel(ErrIncorrentToken))]
               ELSE [ctor EXCEPT !.pc = "loop",
                                 !.client = [http |-> "nil", endpoint |-> <<defaultAPIServer>>]]
    /\ UNCHANGED <<msg, verr, vcalls, client, call, made, cmdr>>

\* one turn of the loop: the next option is called on the client; its error
\* ends NewClient
NewClientOptionGoOn ==
    /\ ctor.pc = "loop"
    /\ Len(ctor.invoked) < Len(ctor.options)
    /\ LET o == ctor.options[Len(ctor.invoked) + 1]
           r == ApplyOption(ctor.client, o)
       IN ctor' = [ctor EXCEPT !.invoked = Append(@, o), !.client = r.cl]
    /\ UNCHANGED <<msg, verr, vcalls, client, call, made, cmdr>>

NewClientOption ==
    /\ ctor.pc = "loop"
    /\ Len(ctor.invoked) < Len(ctor.options)
    /\ LET o == ctor.options[Len(ctor.invoked) + 1]
           r == ApplyOption(ctor.client, o)
       IN ctor' = IF IsErr(r.err)
                  THEN [ctor EXCEPT !.pc = "done", !.invoked = Append(@, o), !.client = r.cl,
                                    !.err = Wrap("Client: ", r.err)]
                  ELSE [ctor EXCEPT !.invoked = Append(@, o), !.client = r.cl]
    /\ UNCHANGED <<msg, verr, vcalls, client, call, made, cmdr>>

\* after the loop: the default transport when none was set, the token
\* appended to the endpoint, the client returned
NewClientFinishNoDefault ==
    /\ ctor.pc = "loop"
    /\ Len(ctor.invoked) = Len(ctor.options)
    /\ LET cl == [http |-> ctor.client.http,
                  endpoint |-> ctor.client.endpoint \o <<"/bot">> \o ctor.token \o <<"/">>]
       IN /\ ctor' = [ctor EXCEPT !.pc = "done", !.client = cl, !.result = cl]
          /\ client' = cl
    /\ UNCHANGED <<msg, verr, vcalls, call, made, cmdr>>

NewClientFinish ==
    /\ ctor.pc = "loop"
    /\ Len(ctor.invoked) = Len(ctor.options)
    /\ LET cl == [http |-> IF ctor.client.http = "nil" THEN defaultHTTPClient ELSE ctor.client.http,
                  endpoint |-> ctor.client.endpoint \o <<"/bot">> \o ctor.token \o <<"/">>]
       IN /\ ctor' = [ctor EXCEPT !.pc = "done", !.client = cl, !.result = cl]
          /\ client' = cl
    /\ UNCHANGED <<msg, verr, vcalls, call, made, cmdr>>

(***************************************************************************)
(* The message constructors called on their own: made records the          *)
(* arguments of the call and the pair (message, error) it returned.        *)
(***************************************************************************)
NoMade ==
    [fn |-> "none", chatID |-> 0, messageID |-> 0, text |-> 0, opts |-> <<>>,
     msg |-> NilValue, err |-> NoErr]

\* sm, err := NewSendMessage(chatID, text, opts...)
CallNewSendMessage(chatIDs, texts, optss) ==
    /\ made.fn = "none"
    /\ \E chatID \in chatIDs, text \in texts, opts \in optss :
         LET r == NewSendMessage(chatID, text, opts)
         IN made' = [fn |-> "NewSendMessage", chatID |-> chatID, messageID |-> 0,
                     text |-> text, opts |-> opts, msg |-> r.msg, err |-> r.err]
    /\ UNCHANGED <<msg, verr, vcalls, client, call, ctor, cmdr>>

\* em, err := NewEditMessage(chatID, messageID, text, opts...)
CallNewEditMessage(chatIDs, messageIDs, texts, optss) ==
    /\ made.fn = "none"
    /\ \E chatID \in chatIDs, messageID \in messageIDs, text \in texts, opts \in optss :
         LET r == NewEditMessage(chatID, messageID, text, opts)
         IN made' = [fn |-> "NewEditMessage", chatID |-> chatID, messageID |-> messageID,
                     text |-> text, opts |-> opts, msg |-> r.msg, err |-> r.err]
    /\ UNCHANGED <<msg, verr, vcalls, client, call, ctor, cmdr>>

(***************************************************************************)
(* The command dispatcher of cmd/tg.  An argument of the process is a      *)
(* token: a word (no leading '-', or shorter than two characters), a flag  *)
(* "-name"/"--name" with or without "=value", the terminator "--", or a    *)
(* malformed flag such as "---x".  A flag set is a function from the names *)
(* of its declared flags to their kinds.                                   *)
(***************************************************************************)
Word(s) == [t |-> "word", s |-> s]

Flag(name) == [t |-> "flag", name |-> name, value |-> "none"]

FlagWith(name, value) == [t |-> "flag", name |-> name, value |-> value]

Terminator == [t |-> "--"]

BadFlag == [t |-> "bad flag"]

\* the argument as the string the program sees
TokenText(tok) ==
    CASE tok.t = "word" -> tok.s
      [] tok.t = "flag" -> "--flag"
      [] tok.t = "--" -> "--"
      [] tok.t = "bad flag" -> "---"

ErrHelp == "flag: help requested"

\* flag.Value.Set of the flag kinds the program declares
ValueSet(kind, text) ==
    CASE kind = "string" -> nil
      [] kind = "int64" -> IF text = "1" THEN nil ELSE "parse error"
      [] kind = "bool" -> IF text \in {"1", "true", "false"} THEN nil ELSE "parse error"

\* func (f *FlagSet) parseOne() (bool, error)
parseOne(formal, args) ==
    IF args = <<>> THEN [seen |-> FALSE, err |-> nil, args |-> args]
    ELSE LET s == Head(args)
             rest == Tail(args)
         IN CASE s.t = "word" -> [seen |-> FALSE, err |-> nil, args |-> args]
              [] s.t = "--" -> [seen |-> FALSE, err |-> nil, args |-> rest]
              [] s.t = "bad flag" -> [seen |-> FALSE, err |-> "bad flag syntax", args |-> args]
              [] s.t = "flag" ->
                   IF s.name \notin DOMAIN formal
                   THEN IF s.name \in {"help", "h"}
                        THEN [seen |-> FALSE, err |-> ErrHelp, args |-> rest]
                        ELSE [seen |-> FALSE, err |-> "flag provided but not defined", args |-> rest]
                   ELSE IF formal[s.name] = "bool"
                   THEN IF s.value # "none" /\ ValueSet("bool", s.value) # nil
                        THEN [seen |-> FALSE, err |-> "invalid boolean value", args |-> rest]
                        ELSE [seen |-> TRUE, err |-> nil, args |-> rest]
                   ELSE IF s.value = "none" /\ rest = <<>>
                   THEN [seen |-> FALSE, err |-> "flag needs an argument", args |-> rest]
                   ELSE LET value == IF s.value # "none" THEN s.value ELSE TokenText(Head(rest))
                            left == IF s.value # "none" THEN rest ELSE Tail(rest)
                        IN IF ValueSet(formal[s.name], value) # nil
                           THEN [seen |-> FALSE, err |-> "invalid value", args |-> left]
                           ELSE [seen |-> TRUE, err |-> nil, args |-> left]

\* func (f *FlagSet) Parse(arguments []string) error, with ContinueOnError;
\* args is what f.Args() returns afterwards
RECURSIVE Parse(_, _)
Parse(formal, arguments) ==
    LET one == parseOne(formal, arguments)
    IN IF one.seen THEN Parse(formal, one.args)
       ELSE [err |-> one.err, args |-> one.args]

rootCmd == "_"

NoFlags == <<>>

\* func New() *Commander
New == rootCmd :> [name |-> "tg", flag |-> NoFlags, run |-> "nil"]

\* func (c *Commander) Root(name string, fn FlagFunc)
Root(cmds, name, flags) == [cmds EXCEPT ![rootCmd].name = name, ![rootCmd].flag = flags]

\* func (c *Commander) Command(name, desc string, fn FlagFunc, runFn RunFunc)
Command(cmds, name, flags, runFn) ==
    (name :> [name |-> name, flag |-> flags, run |-> runFn]) @@ cmds

\* the errors a run function returns
RunErrors == {nil, "run error"}

NoCommander ==
    [cmds |-> New, osArgs |-> <<>>, pc |-> "none", rest |-> <<>>, name |-> "", args |-> <<>>,
     invoked |-> 0, ran |-> nil, output |-> "", exit |-> <<>>]

\* c.Run() is called in a process started with the arguments osArgs
RunStart(cmds, osArgs) == [NoCommander EXCEPT !.cmds = cmds, !.osArgs = osArgs, !.pc = "Run"]

\* what was printed, then os.Exit(code)
Exit(cm, output, code) ==
    [cm EXCEPT !.pc = "exited", !.output = output, !.exit = Append(@, code)]

\* Run: the root flags are parsed from the arguments of the process
RunParseRoot ==
    /\ cmdr.pc = "Run"
    /\ LET r == Parse(cmdr.cmds[rootCmd].flag, cmdr.osArgs)
       IN cmdr' = IF r.err # nil
                  THEN Exit(cmdr, IF r.err = ErrHelp THEN "rootHelp" ELSE "rootError", 1)
                  ELSE [cmdr EXCEPT !.pc = "root parsed", !.rest = r.args]
    /\ UNCHANGED <<msg, verr, vcalls, client, call, ctor, made>>

\* the same without the help shown to a command that declares flags and is
\* given no arguments
RunSelectNoCommandHelp ==
    /\ cmdr.pc = "root parsed"
    /\ cmdr' = IF cmdr.rest = <<>>
               THEN Exit(cmdr, "rootHelp", 1)
               ELSE LET name == TokenText(Head(cmdr.rest))
                        args == Tail(cmdr.rest)
                    IN IF name \notin DOMAIN cmdr.cmds \/ name = rootCmd
                       THEN Exit(cmdr, "rootError", 1)
                       ELSE [cmdr EXCEPT !.pc = "selected", !.name = name, !.args = args]
    /\ UNCHANGED <<msg, verr, vcalls, client, call, ctor, made>>

\* Run: the first remaining argument selects the command
RunSelect ==
    /\ cmdr.pc = "root parsed"
    /\ cmdr' = IF cmdr.rest = <<>>
               THEN Exit(cmdr, "rootHelp", 1)
               ELSE LET name == TokenText(Head(cmdr.rest))
                        args == Tail(cmdr.rest)
                    IN IF name \notin DOMAIN cmdr.cmds \/ name = rootCmd
                       THEN Exit(cmdr, "rootError", 1)
                       ELSE IF args = <<>> /\ DOMAIN cmdr.cmds[name].flag # {}
                       THEN Exit(cmdr, "commandHelp", 1)
                       ELSE [cmdr EXCEPT !.pc = "selected", !.name = name, !.args = args]
    /\ UNCHANGED <<msg, verr, vcalls, client, call, ctor, made>>

\* Run: the flags of the command are parsed from the arguments after its name
RunParseCommand ==
    /\ cmdr.pc = "selected"
    /\ LET r == Parse(cmdr.cmds[cmdr.name].flag, cmdr.args)
       IN cmdr' = IF r.err # nil
                  THEN Exit(cmdr, IF r.err = ErrHelp THEN "commandHelp" ELSE "commandError", 1)
                  ELSE [cmdr EXCEPT !.pc = "command parsed"]
    /\ UNCHANGED <<msg, verr, vcalls, client, call, ctor, made>>

\* Run: cmd.run() is called and the process exits with what it returned
RunCommand ==
    /\ cmdr.pc = "command parsed"
    /\ \E err \in RunErrors :
         LET called == [cmdr EXCEPT !.invoked = @ + 1, !.ran = err]
         IN cmdr' = IF err # nil THEN Exit(called, "Error: ", 1) ELSE Exit(called, "", 0)
    /\ UNCHANGED <<msg, verr, vcalls, client, call, ctor, made>>

(***************************************************************************)
(* One call of Validate on the request held by the caller.  None of the    *)
(* Validate methods assigns to its receiver.                               *)
(***************************************************************************)
unset == "unset"

ValidateCallTruncating ==
    /\ vcalls < MaxValidateCalls
    /\ verr' = Validate(msg)
    /\ vcalls' = vcalls + 1
    /\ msg' = IF HasText(msg) /\ TextOf(msg) > MaxTextSize
              THEN IF msg.kind = "BaseMessage"
                   THEN [msg EXCEPT !.v.Text = MaxTextSize]
                   ELSE [msg EXCEPT !.v.BaseMessage.Text = MaxTextSize]
              ELSE msg
    /\ UNCHANGED <<client, call, ctor, made, cmdr>>

ValidateCall ==
    /\ vcalls < MaxValidateCalls
    /\ verr' = Validate(msg)
    /\ vcalls' = vcalls + 1
    /\ UNCHANGED <<msg, client, call, ctor, made, cmdr>>

\* no client is in use while requests are validated on their own
Callers == {"caller"}

NoCalls == [c \in Callers |-> IdleCall]

InitV ==
    /\ msg \in Messages(TextLens)
    /\ verr = unset
    /\ vcalls = 0
    /\ client = NoClient
    /\ call = NoCalls
    /\ ctor = NoCtor
    /\ made = NoMade
    /\ cmdr = NoCommander

NextV == ValidateCall

SpecV == InitV /\ [][NextV]_vars

(***************************************************************************)
(* The same call on requests whose text ranges over every length up to     *)
(* just past the limit, the other fields being valid.                      *)
(***************************************************************************)
ValidBaseMessages == [ChatID : {1}, Text : AllTextLens, ParseMode : {"", "MarkdownV2", "Markdown", "HTML"}]

InitText ==
    /\ msg \in Tagged("BaseMessage", ValidBaseMessages)
                \cup Tagged("SendMessage",
                        [BaseMessage : ValidBaseMessages, MessageThreadID : 0..MaxID,
                         DisableWebPagePreview : {FALSE}, DisableNotification : {FALSE},
                         ProtectContent : {FALSE}])
                \cup Tagged("EditMessage", [MessageID : 1..MaxID, BaseMessage : ValidBaseMessages])
    /\ verr = unset
    /\ vcalls = 0
    /\ client = NoClient
    /\ call = NoCalls
    /\ ctor = NoCtor
    /\ made = NoMade
    /\ cmdr = NoCommander

SpecText == InitText /\ [][NextV]_vars

(***************************************************************************)
(* The client in use: it was constructed by NewClient, and one caller      *)
(* runs operations on it one after the other.                              *)
(***************************************************************************)
Tokens ==
    {<<"1", ":", "a">>,
     <<"4", "2", ":", "A", "-", "b", "_", "7">>,
     <<"a", ":", "1">>,
     <<"1", "a">>,
     <<"1", ":">>,
     <<":", "a">>,
     <<"1", ":", "a", "!">>,
     <<>>}

ClientOptions ==
    {WithAPIServer("http://test"), WithAPIServer("test://"),
     WithHTTPClient("mock"), WithHTTPClient("nil")}

\* the clients NewClient returns without an error
Clients ==
    {r.client : r \in {x \in {NewClient(t, o) : t \in Tokens, o \in SeqsUpTo(ClientOptions, MaxOpts)} :
                         ~IsErr(x.err)}}

Init ==
    /\ msg = Tag("ParseMode", "")
    /\ verr = unset
    /\ vcalls = 0
    /\ client \in Clients
    /\ call = NoCalls
    /\ ctor = NoCtor
    /\ made = NoMade
    /\ cmdr = NoCommander

Next ==
    \/ \E c \in Callers : ClientGetMe(c)
    \/ \E c \in Callers : ClientSendMessage(c)
    \/ \E c \in Callers : ClientEditMessage(c)
    \/ \E c \in Callers : ClientDeleteMessage(c)
    \/ \E c \in Callers : ClientAPI(c)
    \/ \E c \in Callers : HTTPDoFail(c)
    \/ \E c \in Callers : HTTPDoRespond(c)
    \/ \E c \in Callers : APIDecode(c)
    \/ \E c \in Callers : Return(c)

Spec == Init /\ [][Next]_vars

(***************************************************************************)
(* The earlier revision in use: a TG made by NewTG from any token.         *)
(***************************************************************************)
InitTG ==
    /\ msg = Tag("ParseMode", "")
    /\ verr = unset
    /\ vcalls = 0
    /\ client \in {NewTG(t) : t \in Tokens}
    /\ call = NoCalls
    /\ ctor = NoCtor
    /\ made = NoMade
    /\ cmdr = NoCommander

NextTG ==
    \/ \E c \in Callers : TGGetMe(c)
    \/ \E c \in Callers : TGSendMessage(c)
    \/ \E c \in Callers : Return(c)

SpecTG == InitTG /\ [][NextTG]_vars

(***************************************************************************)
(* Construction: NewClient called with any of the tokens and up to MaxOpts *)
(* options.                                                                *)
(***************************************************************************)
APIServers == {"", "test", "test://", "http://", "/test", "http://test", "https://test"}

\* the HTTPClient values passed to WithHTTPClient: an implementation, the nil
\* interface value, and an interface value that holds a nil pointer (which
\* does not compare equal to nil)
HTTPClients == {"mock", "nil", "nil pointer"}

NewClientOptions ==
    {WithAPIServer(s) : s \in APIServers} \cup {WithHTTPClient(h) : h \in HTTPClients}

InitNew ==
    /\ msg = Tag("ParseMode", "")
    /\ verr = unset
    /\ vcalls = 0
    /\ client = NoClient
    /\ call = NoCalls
    /\ ctor \in {CtorStart(t, o) : t \in Tokens, o \in SeqsUpTo(NewClientOptions, MaxOpts)}
    /\ made = NoMade
    /\ cmdr = NoCommander

NextNew ==
    \/ NewClientCheckToken
    \/ NewClientOption
    \/ NewClientFinish

SpecNew == InitNew /\ [][NextNew]_vars

(***************************************************************************)
(* Concurrent use: several callers share one client and their calls        *)
(* interleave at the points where a call waits for the transport.  The     *)
(* arguments and the transport's answers are a part of those of Spec.      *)
(***************************************************************************)
ConcCallers == {"c1", "c2"}

ConcClients ==
    {NewClient(<<"1", ":", "a">>, <<>>).client,
     NewClient(<<"4", "2", ":", "A", "-", "b", "_", "7">>,
               <<WithAPIServer("http://test"), WithHTTPClient("mock")>>).client}

ConcBodies ==
    {[kind |-> "empty"],
     BodyObject("false", "absent", 429, "Too Many Requests", 5),
     BodyObject("true", "user", 0, "", 0),
     BodyObject("true", "message", 0, "", 0),
     BodyObject("true", "true", 0, "", 0)}

InitConc ==
    /\ msg = Tag("ParseMode", "")
    /\ verr = unset
    /\ vcalls = 0
    /\ client \in ConcClients
    /\ call = [c \in ConcCallers |-> IdleCall]
    /\ ctor = NoCtor
    /\ made = NoMade
    /\ cmdr = NoCommander

NextConc ==
    \/ \E c \in ConcCallers : ClientGetMe(c)
    \/ \E c \in ConcCallers :
          ClientSendMessageOf(c, {0, 1}, {1}, {<<>>, <<ParseModeSendOption("test")>>})
    \/ \E c \in ConcCallers : ClientEditMessageOf(c, {1}, {0, 1}, {1}, {<<>>})
    \/ \E c \in ConcCallers : ClientDeleteMessage(c)
    \/ \E c \in ConcCallers :
          ClientAPI(c) /\ call'[c].req = AnyNil /\ call'[c].target \in {AnyNil, PtrTo("struct")}
    \/ \E c \in ConcCallers : HTTPDoFail(c)
    \/ \E c \in ConcCallers : HTTPDoRespond(c) /\ call'[c].body \in ConcBodies
    \/ \E c \in ConcCallers : APIDecode(c)
    \/ \E c \in ConcCallers : Return(c)

SpecConc == InitConc /\ [][NextConc]_vars


(***************************************************************************)
(* The message constructors on their own, with the options of the library  *)
(* and options the caller wrote that assign the positional fields.         *)
(***************************************************************************)
MadeSendOptions ==
    {ParseModeSendOption("HTML"), ParseModeSendOption("test"),
     MessageThreadIDSendOption(0 - 1), MessageThreadIDSendOption(1),
     DisableNotificationSendOption(TRUE),
     FuncOption("ChatID", 0), FuncOption("ChatID", 1), FuncOption("Text", 0)}

MadeEditOptions ==
    {ParseModeEditOption("HTML"), ParseModeEditOption("test"),
     FuncOption("ChatID", 0), FuncOption("MessageID", 0), FuncOption("MessageID", 1),
     FuncOption("Text", 0)}

InitMade ==
    /\ msg = Tag("ParseMode", "")
    /\ verr = unset
    /\ vcalls = 0
    /\ client = NoClient
    /\ call = NoCalls
    /\ ctor = NoCtor
    /\ made = NoMade
    /\ cmdr = NoCommander

NextMade ==
    \/ CallNewSendMessage(IDs, TextLens, SeqsUpTo(MadeSendOptions, MaxOpts))
    \/ CallNewEditMessage(IDs, IDs, TextLens, SeqsUpTo(MadeEditOptions, MaxOpts))

SpecMade == InitMade /\ [][NextMade]_vars

(***************************************************************************)
(* Run of a Commander set up as cmd/tg sets it up (root flags, a command   *)
(* with flags, a command without), of one where a command was registered   *)
(* under the reserved name, and of one without commands, on every          *)
(* argument list up to MaxArgs tokens.                                     *)
(***************************************************************************)
MaxArgs == 3

RootFlags == ("token" :> "string") @@ ("debug" :> "bool")

SendFlags == ("chat_id" :> "int64") @@ ("silent" :> "bool")

Commanders ==
    {Command(Command(Root(New, "tg", RootFlags), "send", SendFlags, "func"), "me", NoFlags, "func"),
     Command(Command(Root(New, "tg", RootFlags), "send", SendFlags, "func"), rootCmd, NoFlags, "func"),
     Root(New, "tg", RootFlags)}

ArgTokens ==
    {Word("send"), Word("me"), Word(rootCmd), Word("1"),
     Flag("token"), Flag("chat_id"), Flag("silent"), FlagWith("debug", "x"),
     Flag("help"), Terminator, BadFlag}

InitCmd ==
    /\ msg = Tag("ParseMode", "")
    /\ verr = unset
    /\ vcalls = 0
    /\ client = NoClient
    /\ call = NoCalls
    /\ ctor = NoCtor
    /\ made = NoMade
    /\ cmdr \in {RunStart(cmds, osArgs) : cmds \in Commanders, osArgs \in SeqsUpTo(ArgTokens, MaxArgs)}

NextCmd ==
    \/ RunParseRoot
    \/ RunSelect
    \/ RunParseCommand
    \/ RunCommand

SpecCmd == InitCmd /\ [][NextCmd]_vars

\* Run is straight-line code: a step that can be taken is taken
SpecCmdFair == SpecCmd /\ WF_vars(NextCmd)
(***************************************************************************)
(* The validation rules as the specification numbers them.                 *)
(***************************************************************************)
KnownParseModes == {"", "MarkdownV2", "Markdown", "HTML"}

MessageIDOf(m) == m.v.MessageID

RuleViolated(n, m) ==
    CASE n = 1 -> ChatIDOf(m) = 0
      [] n = 2 -> HasText(m) /\ TextOf(m) = 0
      [] n = 3 -> HasText(m) /\ TextOf(m) > 4096
      [] n = 4 -> HasText(m) /\ ParseModeOf(m) \notin KnownParseModes
      [] n = 5 -> m.kind = "SendMessage" /\ m.v.MessageThreadID < 0
      [] n = 6 -> m.kind \in {"EditMessage", "DeleteMessage"} /\ MessageIDOf(m) <= 0

RuleError(n) ==
    CASE n = 1 -> ErrEmptyChatID
      [] n = 2 -> ErrEmptyText
      [] n = 3 -> ErrTextTooLong
      [] n = 4 -> ErrUnknownParseMode
      [] n = 5 -> ErrIncorrectMessageThreadID
      [] n = 6 -> ErrIncorrectMessageID

\* the error of the first rule of order that m violates, nil when it violates none
FirstViolated(order, m) ==
    LET bad == {i \in 1..Len(order) : RuleViolated(order[i], m)}
    IN IF bad = {} THEN nil
       ELSE RuleError(order[CHOOSE i \in bad : \A j \in bad : i <= j])

NumericOrder == <<1, 2, 3, 4, 5, 6>>

EditOrder == <<6, 1, 2, 3, 4>>

Validated == vcalls > 0 /\ IsRequest(msg)

C3_TextLength ==
    (Validated /\ HasText(msg)) =>
        /\ (TextOf(msg) >= 1 /\ TextOf(msg) <= 4096) => verr = nil
        /\ TextOf(msg) = 0 => verr = ErrEmptyText
        /\ TextOf(msg) >= 4097 => verr = ErrTextTooLong

C3_Witness ==
    /\ Validated
    /\ HasText(msg)
    /\ TextOf(msg) = 4096
    /\ verr = nil

\* C4: ParseMode.Validate accepts exactly "", "MarkdownV2", "Markdown" and
\* "HTML" and answers every other spelling with ErrUnknownParseMode.
C4_ParseMode ==
    (vcalls > 0 /\ msg.kind = "ParseMode") =>
        /\ msg.v \in {"", "MarkdownV2", "Markdown", "HTML"} => verr = nil
        /\ msg.v \notin {"", "MarkdownV2", "Markdown", "HTML"} => verr = ErrUnknownParseMode

C4_Witness ==
    /\ vcalls > 0
    /\ msg.kind = "ParseMode"
    /\ msg.v = "markdown"
    /\ verr = ErrUnknownParseMode

BaseRulesHold(m) ==
    /\ ChatIDOf(m) # 0
    /\ TextOf(m) >= 1
    /\ TextOf(m) <= 4096
    /\ ParseModeOf(m) \in KnownParseModes

AllRulesHold(m) ==
    CASE m.kind = "SendMessage" -> BaseRulesHold(m) /\ m.v.MessageThreadID >= 0
      [] m.kind = "EditMessage" -> BaseRulesHold(m) /\ MessageIDOf(m) > 0
      [] m.kind = "DeleteMessage" -> ChatIDOf(m) # 0 /\ MessageIDOf(m) > 0

\* C5: Validate of a send, edit or delete request returns nil exactly when
\* every applicable rule holds; a negative thread id on an otherwise valid
\* send gives ErrIncorrectMessageThreadID, a message id <= 0 on an otherwise
\* valid edit or delete gives ErrIncorrectMessageID.
C5_NilIffValid ==
    (Validated /\ msg.kind # "BaseMessage") =>
        /\ verr = nil <=> AllRulesHold(msg)
        /\ (msg.kind = "SendMessage" /\ BaseRulesHold(msg) /\ msg.v.MessageThreadID < 0)
              => verr = ErrIncorrectMessageThreadID
        /\ (msg.kind = "EditMessage" /\ BaseRulesHold(msg) /\ MessageIDOf(msg) <= 0)
              => verr = ErrIncorrectMessageID
        /\ (msg.kind = "DeleteMessage" /\ ChatIDOf(msg) # 0 /\ MessageIDOf(msg) <= 0)
              => verr = ErrIncorrectMessageID

C5_Witness ==
    /\ Validated
    /\ msg.kind = "SendMessage"
    /\ BaseRulesHold(msg)
    /\ msg.v.MessageThreadID < 0
    /\ verr = ErrIncorrectMessageThreadID

TypedOps == {"SendMessage", "EditMessage", "DeleteMessage"}

\* C7: in SendMessage, EditMessage and DeleteMessage, a request that fails
\* Validate makes the operation return that validation error, wrapped, and
\* the transport's Do is not invoked at any point of the call.
C7_ValidateBeforeNetwork ==
    \A c \in Callers :
        (call[c].op \in TypedOps /\ ~AllRulesHold(call[c].built)) =>
            /\ call[c].pc = "done"
            /\ call[c].doCount = 0
            /\ call[c].httpReq = NoRequest
            /\ call[c].err.cause =
                 [kind |-> "sentinel",
                  name |-> FirstViolated(IF call[c].op = "EditMessage" THEN EditOrder ELSE NumericOrder,
                                         call[c].built)]
            /\ call[c].err.wrap = <<call[c].op \o ": ", call[c].op \o ": ">>

C7_Witness ==
    \E c \in Callers :
        /\ call[c].op = "SendMessage"
        /\ call[c].pc = "done"
        /\ ChatIDOf(call[c].built) # 0
        /\ TextOf(call[c].built) > 4096
        /\ call[c].err.cause = [kind |-> "sentinel", name |-> ErrTextTooLong]
        /\ call[c].doCount = 0

\* a response target API must reject
BadTarget(v) == v.kind # "ptr" \/ v.isnil \/ v.elem \notin {"struct", "bool"}

TargetSentinel(v) ==
    IF v.kind = "nil" THEN ErrValueNil
    ELSE IF v.kind # "ptr" THEN ErrValueNotPtr
    ELSE ErrValueNotStructOrBool

ValueSentinels == {ErrValueNil, ErrValueNotPtr, ErrValueNotStructOrBool}

RemoteSideKinds ==
    {"transport", "errReader", "io.EOF", "json.SyntaxError", "json.UnmarshalTypeError",
     "ResponseError"}

\* C8 as stated: a call of API with a bad response target returns one of
\* ErrValueNil, ErrValueNotPtr, ErrValueNotStructOrBool without calling the
\* transport.
C8_BadTargetValueSentinel ==
    \A c \in Callers :
        (call[c].op = "API" /\ BadTarget(call[c].target)) =>
            /\ call[c].pc = "done"
            /\ call[c].doCount = 0
            /\ call[c].err.cause.kind = "sentinel"
            /\ call[c].err.cause.name \in ValueSentinels

\* C8 (amended): a call of API with a bad response target returns a local
\* error without calling the transport, and the error is none of the
\* transport, decode and remote-reported errors.  When the request body is nil
\* or a serializable pointer to a struct or bool the error is "validate: resp"
\* with ErrValueNil, ErrValueNotPtr or ErrValueNotStructOrBool as the target's
\* shape demands; a request body that is rejected itself is reported first,
\* as "validate: req" with one of the same sentinels or, when it cannot be
\* serialized, as the "request: json" error.
C8_BadTargetRejectedLocally ==
    \A c \in Callers :
        (call[c].op = "API" /\ BadTarget(call[c].target)) =>
            /\ call[c].pc = "done"
            /\ call[c].doCount = 0
            /\ call[c].httpReq = NoRequest
            /\ call[c].err.cause.kind \notin RemoteSideKinds
            /\ IF call[c].req.kind = "nil" \/ (~BadTarget(call[c].req) /\ call[c].req.marshals)
               THEN call[c].err = Wrap("validate: resp ", Sentinel(TargetSentinel(call[c].target)))
               ELSE IF BadTarget(call[c].req)
               THEN call[c].err = Wrap("validate: req ", Sentinel(TargetSentinel(call[c].req)))
               ELSE call[c].err = Wrap("request: json: ", ErrorOf([kind |-> "json.UnsupportedTypeError"]))

C8_Witness ==
    \E c \in Callers :
        /\ call[c].op = "API"
        /\ call[c].pc = "done"
        /\ call[c].target = NilPtrTo("struct")
        /\ call[c].req = PtrTo("struct")
        /\ call[c].err = Wrap("validate: resp ", Sentinel(ErrValueNotStructOrBool))
        /\ call[c].doCount = 0

ClientOps == {"GetMe", "SendMessage", "EditMessage", "DeleteMessage"}

\* C9: when the transport fails with an error whose text quotes the request
\* URL, the error a client operation returns contains the underlying message
\* and does not contain the token.
C9_TokenNotInError ==
    \A c \in Callers :
        (/\ call[c].op \in ClientOps
         /\ call[c].pc = "done"
         /\ call[c].err.cause.kind = "transport"
         /\ Occurs(call[c].httpReq.URL, call[c].err.cause.text)) =>
            /\ Occurs(<<"boom">>, ErrorText(call[c].err))
            /\ ~Occurs(TokenOf(client), ErrorText(call[c].err))

\* the same statement for the earlier revision (SpecTG), whose transport
\* errors pass through redactError
TGTokenNotInError ==
    \A c \in Callers :
        (/\ call[c].pc = "done"
         /\ call[c].err.cause.kind = "redactError"
         /\ regexpTokenMatchString(TokenOf(client))
         /\ Occurs(call[c].httpReq.URL, call[c].err.cause.err)) =>
            /\ Occurs(<<"boom">>, ErrorText(call[c].err))
            /\ ~Occurs(TokenOf(client), ErrorText(call[c].err))

\* in the earlier revision the token is redacted when it holds letters and
\* digits only
TGAlnumTokenRedacted ==
    \A c \in Callers :
        (/\ call[c].pc = "done"
         /\ call[c].err.cause.kind = "redactError"
         /\ regexpTokenMatchString(TokenOf(client))
         /\ \A i \in 1..Len(TokenOf(client)) : TokenOf(client)[i] \in Alnum \cup {":"}
         /\ Occurs(call[c].httpReq.URL, call[c].err.cause.err)) =>
            /\ Occurs(<<"boom">>, ErrorText(call[c].err))
            /\ Occurs(<<"/bot*****/">>, ErrorText(call[c].err))
            /\ ~Occurs(TokenOf(client), ErrorText(call[c].err))

\* C10: a call invokes the transport's Do at most once, and a call that
\* ended in a transport, decode or remote-reported failure invoked it once.
C10_NoRetry ==
    \A c \in Callers :
        /\ call[c].doCount <= 1
        /\ (call[c].pc = "done" /\ call[c].err.cause.kind \in RemoteSideKinds)
              => call[c].doCount = 1

C10_Witness ==
    \E c \in Callers :
        /\ call[c].pc = "done"
        /\ call[c].op = "SendMessage"
        /\ call[c].err.cause.kind = "transport"
        /\ call[c].doCount = 1

(***************************************************************************)
(* Claims about the response                                               *)
(***************************************************************************)
\* the call has gone through the whole of API: the transport answered and
\* the body was decoded
Answered(c) == call[c].pc = "done" /\ call[c].body # NoBody

\* the JSON value of the result member can be stored in the response target
ResultFits(body, target) ==
    \/ body.result = "absent"
    \/ body.result = "true" /\ target.type = "bool"
    \/ body.result \in {"user", "message"} /\ target.type # "bool"

\* the body is a JSON object that decodes into the envelope and the target
Decodes(c) ==
    /\ call[c].body.kind = "object"
    /\ call[c].body.ok # "string"
    /\ ResultFits(call[c].body, call[c].tval)

\* C11: when the body decodes into an envelope whose ok is false, the ok
\* member being absent included, the call returns an error whose cause is the
\* ResponseError with the error_code, description and retry_after of the
\* body; a response whose ok is not true never ends in a nil error.
C11_NotOkIsResponseError ==
    \A c \in Callers :
        /\ (Answered(c) /\ Decodes(c) /\ call[c].body.ok \in {"false", "absent"}) =>
              /\ IsErr(call[c].err)
              /\ call[c].err.cause =
                   [kind |-> "ResponseError", Ok |-> FALSE,
                    ErrorCode |-> call[c].body.error_code,
                    Description |-> call[c].body.description,
                    RetryAfter |-> call[c].body.retry_after]
        /\ (Answered(c) /\ ~(call[c].body.kind = "object" /\ call[c].body.ok = "true")) =>
              IsErr(call[c].err)

C11_Witness ==
    \E c \in Callers :
        /\ call[c].op = "API"
        /\ call[c].pc = "done"
        /\ call[c].body = BodyObject("absent", "absent", 0, "", 0)
        /\ call[c].err = Wrap("response: ", ErrorOf(ZeroResponseError))

C11_WitnessRetryAfter ==
    \E c \in Callers :
        /\ call[c].pc = "done"
        /\ call[c].body = BodyObject("false", "absent", 429, "Too Many Requests", 5)
        /\ call[c].err.cause.kind = "ResponseError"
        /\ call[c].err.cause.RetryAfter = 5

\* the body {"ok":false,"description":"test"}
NotOkTestBody == BodyObject("false", "absent", 0, "test", 0)

DecodeCauseKind(body) ==
    CASE body.kind = "errReader" -> "errReader"
      [] body.kind = "empty" -> "io.EOF"
      [] body.kind = "text" -> "json.SyntaxError"
      [] OTHER -> "json.UnmarshalTypeError"

\* the prefixes the operation op puts before the error API returns
OpPrefix(op) == IF op = "API" THEN <<>> ELSE <<op \o ": ">>

\* C13: when the body does not decode into an envelope (a failing read, an
\* empty body, a body that is not JSON, an ok member that is not a boolean,
\* a result member of the wrong JSON type), the call returns the decode
\* error "response: json: " wrapping the cause (the reader's error, io.EOF,
\* the syntax error, the type error), and no ResponseError is in that error.
C13_DecodeError ==
    \A c \in Callers :
        (Answered(c) /\ ~Decodes(c)) =>
            /\ call[c].err.wrap = OpPrefix(call[c].op) \o <<"response: json: ">>
            /\ call[c].err.cause = [kind |-> DecodeCauseKind(call[c].body)]
            /\ call[c].err.cause.kind # "ResponseError"

C13_Witness ==
    \E c \in Callers :
        /\ call[c].op = "API"
        /\ call[c].pc = "done"
        /\ call[c].body = [kind |-> "empty"]
        /\ call[c].err = Wrap("response: json: ", ErrorOf([kind |-> "io.EOF"]))

C13_WitnessErrReader ==
    \E c \in Callers :
        /\ call[c].pc = "done"
        /\ call[c].body = [kind |-> "errReader"]
        /\ call[c].err.cause = [kind |-> "errReader"]

C13_WitnessOkString ==
    \E c \in Callers :
        /\ call[c].pc = "done"
        /\ call[c].body.kind = "object"
        /\ call[c].body.ok = "string"
        /\ call[c].err.cause = [kind |-> "json.UnmarshalTypeError"]

\* the user of the body {"ok":true,"result":{"id":1,"first_name":"test"}}
TestUser == [type |-> "User", ID |-> 1, FirstName |-> "test", UserName |-> ""]

\* what a response target of the given type holds after the result member
\* has been decoded into it
Decoded(result, type) ==
    CASE type = "User" -> IF result = "user" THEN TestUser
                          ELSE [type |-> "User", ID |-> 0, FirstName |-> "", UserName |-> ""]
      [] type = "Message" -> IF result = "message"
                             THEN [type |-> "Message", MessageID |-> 7, Date |-> 1]
                             ELSE [type |-> "Message", MessageID |-> 0, Date |-> 0]
      [] type = "bool" -> [type |-> "bool", b |-> (result = "true")]
      [] OTHER -> [type |-> type]

\* C14: when the body decodes into an envelope whose ok is true, the call
\* returns no error and the response target holds the decoded result; with
\* the result {"id":1,"first_name":"test"} a User target holds ID 1,
\* FirstName "test", UserName "", and GetMe returns that user and a nil error.
C14_OkDecodesResult ==
    \A c \in Callers :
        (Answered(c) /\ Decodes(c) /\ call[c].body.ok = "true") =>
            /\ call[c].err = NoErr
            /\ call[c].tval = Decoded(call[c].body.result, call[c].tval.type)
            /\ (call[c].body.result = "user" /\ call[c].tval.type = "User") =>
                  call[c].tval = TestUser
            /\ call[c].op # "API" => call[c].result = call[c].tval

C14_Witness ==
    \E c \in Callers :
        /\ call[c].op = "GetMe"
        /\ call[c].pc = "done"
        /\ call[c].body = BodyObject("true", "user", 0, "", 0)
        /\ call[c].err = NoErr
        /\ call[c].result = TestUser

C14_WitnessAPI ==
    \E c \in Callers :
        /\ call[c].op = "API"
        /\ call[c].pc = "done"
        /\ call[c].body = BodyObject("true", "user", 0, "", 0)
        /\ call[c].err = NoErr
        /\ call[c].tval = TestUser

\* the value of the given type that nothing has been decoded into
Unpopulated(type) == Decoded("absent", type)

\* C15: a finished call either returns an error and leaves the typed result
\* (for API, the value the response target points to) unpopulated, or it
\* returns no error and the result holds the whole decoded result; never an
\* error together with a populated result.
C15_NoPartialSuccess ==
    \A c \in Callers :
        call[c].pc = "done" =>
            IF IsErr(call[c].err)
            THEN IF call[c].op = "API"
                 THEN call[c].tval = Unpopulated(call[c].tval.type)
                 ELSE call[c].result = FailResult(call[c].op)
            ELSE IF call[c].op = "API"
                 THEN call[c].tval = Decoded(call[c].body.result, call[c].tval.type)
                 ELSE call[c].result = Decoded(call[c].body.result, call[c].tval.type)

\* the part of C15 about GetMe, SendMessage, EditMessage and DeleteMessage,
\* which holds: with an error they return nil (false for DeleteMessage)
C15_TypedOperations ==
    \A c \in Callers :
        (call[c].pc = "done" /\ call[c].op \in ClientOps) =>
            IF IsErr(call[c].err)
            THEN call[c].result = FailResult(call[c].op)
            ELSE call[c].result = Decoded(call[c].body.result, call[c].tval.type)

\* C16: a call that has returned closed the response body exactly once when
\* the transport had returned a response (on success, on a decode failure and
\* on a remote-reported failure alike) and closed nothing when it had not;
\* nothing is closed before the body has been read.
C16_BodyClosedOnce ==
    \A c \in Callers :
        /\ call[c].pc = "done" => call[c].closed = (IF call[c].body # NoBody THEN 1 ELSE 0)
        /\ call[c].pc # "done" => call[c].closed = 0
        /\ (call[c].pc = "done" /\ call[c].err.cause.kind = "transport") =>
              (call[c].body = NoBody /\ call[c].closed = 0)

\* C16, the second half: once the call has returned, the body is not read or
\* closed again; the only step left is the caller taking the result.
C16_BodyNotUsedAfterReturn ==
    [][\A c \in Callers : call[c].pc = "done" => call'[c] = IdleCall]_vars

C16_Witness ==
    \E c \in Callers :
        /\ call[c].pc = "done"
        /\ call[c].body = [kind |-> "text"]
        /\ call[c].err.cause.kind = "json.SyntaxError"
        /\ call[c].closed = 1

C16_WitnessRemote ==
    \E c \in Callers :
        /\ call[c].pc = "done"
        /\ call[c].err.cause.kind = "ResponseError"
        /\ call[c].closed = 1

C16_WitnessTransport ==
    \E c \in Callers :
        /\ call[c].pc = "done"
        /\ call[c].err.cause.kind = "transport"
        /\ call[c].closed = 0

\* the error the call of c met first, before any wrapping
UnderlyingCause(c) ==
    IF call[c].op \in TypedOps /\ ~AllRulesHold(call[c].built)
    THEN [kind |-> "sentinel",
          name |-> FirstViolated(IF call[c].op = "EditMessage" THEN EditOrder ELSE NumericOrder,
                                 call[c].built)]
    ELSE IF call[c].httpReq = NoRequest THEN [kind |-> "nil Context"]
    ELSE IF call[c].body = NoBody THEN [kind |-> "transport", text |-> call[c].err.cause.text]
    ELSE IF ~Decodes(c) THEN [kind |-> DecodeCauseKind(call[c].body)]
    ELSE [kind |-> "ResponseError", Ok |-> FALSE,
          ErrorCode |-> call[c].body.error_code,
          Description |-> call[c].body.description,
          RetryAfter |-> call[c].body.retry_after]

C17_WitnessSentinel ==
    \E c \in Callers :
        /\ call[c].pc = "done"
        /\ call[c].op = "DeleteMessage"
        /\ call[c].err = Wrap("DeleteMessage: ", Wrap("DeleteMessage: ", Sentinel(ErrIncorrectMessageID)))

(***************************************************************************)
(* Claims about NewClient (SpecNew)                                        *)
(***************************************************************************)
\* the token is one or more digits, a colon, and one or more characters that
\* are digits, letters, underscores or dashes
TokenShape(token) ==
    \E k \in 2..(Len(token) - 1) :
        /\ token[k] = ":"
        /\ \A i \in 1..(k - 1) : token[i] \in Digits
        /\ \A i \in (k + 1)..Len(token) : token[i] \in Digits \cup Letters \cup {"_", "-"}

\* the step-by-step NewClient returns what the operator NewClient computes
NewClientAgrees ==
    ctor.pc = "done" =>
        NewClient(ctor.token, ctor.options) = [client |-> ctor.result, err |-> ctor.err]

\* C18: NewClient called with a token that has not the shape digits, colon,
\* digits/letters/underscores/dashes returns the error ErrIncorrentToken
\* (wrapped with "Client: ") and no client, and has invoked none of the
\* options it was given.
C18_TokenCheckedFirst ==
    (~TokenShape(ctor.token) /\ ctor.pc \notin {"none", "start"}) =>
        /\ ctor.pc = "done"
        /\ ctor.err = Wrap("Client: ", Sentinel(ErrIncorrentToken))
        /\ ctor.invoked = <<>>
        /\ ctor.result = NoClient
        /\ client = NoClient

C18_Witness ==
    /\ ctor.pc = "done"
    /\ ctor.token = <<"a", ":", "1">>
    /\ ctor.options = <<WithHTTPClient("mock"), WithAPIServer("test://")>>
    /\ ctor.invoked = <<>>
    /\ ctor.err = Wrap("Client: ", Sentinel(ErrIncorrentToken))

\* the base addresses that are absolute http or https URLs with a host
GoodServers == {"http://test", "https://test"}

\* the error an option returns, whatever client it is called on
OptionError(o) ==
    IF o.opt = "WithHTTPClient"
    THEN (IF o.http = "nil" THEN Sentinel(ErrHTTPClientNil) ELSE NoErr)
    ELSE CASE o.server \in GoodServers -> NoErr
           [] o.server \in {"", "test"} ->
                 Wrap("apiserver: ", ErrorOf([kind |-> "url.Error", server |-> o.server]))
           [] o.server \in {"test://", "/test"} ->
                 Wrap("apiserver: url: ", Sentinel(ErrIncorrectScheme))
           [] o.server = "http://" ->
                 Wrap("apiserver: url: ", Sentinel(ErrEmptyHost))

\* the number of options NewClient invokes: up to and including the first
\* one that fails
InvokedCount(options) ==
    IF \E i \in 1..Len(options) : IsErr(OptionError(options[i]))
    THEN CHOOSE i \in 1..Len(options) :
            /\ IsErr(OptionError(options[i]))
            /\ \A j \in 1..(i - 1) : ~IsErr(OptionError(options[j]))
    ELSE Len(options)

\* the endpoint and the transport left by the options opts, all successful,
\* called in order on a new client
RECURSIVE Configured(_)
Configured(opts) ==
    IF opts = <<>> THEN [http |-> "nil", endpoint |-> <<defaultAPIServer>>]
    ELSE LET before == Configured(SubSeq(opts, 1, Len(opts) - 1))
             o == opts[Len(opts)]
         IN IF o.opt = "WithAPIServer" THEN [before EXCEPT !.endpoint = <<o.server>>]
            ELSE [before EXCEPT !.http = o.http]

\* C19: NewClient invokes its options in the order given, one at a time, and
\* stops at the first that fails: the options before it have run and taken
\* effect, none after it has been invoked, NewClient returns that option's
\* error wrapped with "Client: " and no client.
C19_OptionsInOrderShortCircuit ==
    /\ Len(ctor.invoked) <= Len(ctor.options)
    /\ ctor.invoked = SubSeq(ctor.options, 1, Len(ctor.invoked))
    /\ Len(ctor.invoked) <= InvokedCount(ctor.options)
    /\ (ctor.pc = "done" /\ TokenShape(ctor.token)) =>
          LET n == InvokedCount(ctor.options)
          IN /\ ctor.invoked = SubSeq(ctor.options, 1, n)
             /\ IF n > 0 /\ IsErr(OptionError(ctor.options[n]))
                THEN /\ ctor.err = Wrap("Client: ", OptionError(ctor.options[n]))
                     /\ ctor.client = Configured(SubSeq(ctor.options, 1, n - 1))
                     /\ ctor.result = NoClient
                     /\ client = NoClient
                ELSE /\ ctor.err = NoErr
                     /\ ctor.result # NoClient

C19_Witness ==
    /\ ctor.pc = "done"
    /\ ctor.options = <<WithHTTPClient("mock"), WithAPIServer("test://")>>
    /\ ctor.invoked = ctor.options
    /\ ctor.client.http = "mock"
    /\ ctor.err = Wrap("Client: ", Wrap("apiserver: url: ", Sentinel(ErrIncorrectScheme)))
    /\ ctor.result = NoClient

C19_WitnessNotInvoked ==
    /\ ctor.pc = "done"
    /\ ctor.options = <<WithHTTPClient("nil"), WithAPIServer("http://test")>>
    /\ ctor.invoked = <<WithHTTPClient("nil")>>
    /\ ctor.err = Wrap("Client: ", Sentinel(ErrHTTPClientNil))

\* C20: an invocation of WithAPIServer(server) sets the endpoint to server
\* when server is an absolute URL with the scheme http or https and a host,
\* and NewClient goes on; otherwise it leaves the client as it was and
\* NewClient ends with the option's error: ErrIncorrectScheme for "test://"
\* (and for an address without a scheme), ErrEmptyHost for "http://", the
\* parse error for an empty or unparsable address.
C20_WithAPIServer ==
    [][(ctor.pc = "loop" /\ Len(ctor'.invoked) = Len(ctor.invoked) + 1
          /\ ctor'.invoked[Len(ctor'.invoked)].opt = "WithAPIServer") =>
            LET server == ctor'.invoked[Len(ctor'.invoked)].server
            IN IF server \in GoodServers
               THEN /\ ctor'.client = [ctor.client EXCEPT !.endpoint = <<server>>]
                    /\ ctor'.pc = "loop"
                    /\ ctor'.err = NoErr
               ELSE /\ ctor'.client = ctor.client
                    /\ ctor'.pc = "done"
                    /\ ctor'.result = NoClient
                    /\ ctor'.err =
                         (CASE server = "test://" ->
                                  Wrap("Client: ", Wrap("apiserver: url: ", Sentinel(ErrIncorrectScheme)))
                            [] server = "/test" ->
                                  Wrap("Client: ", Wrap("apiserver: url: ", Sentinel(ErrIncorrectScheme)))
                            [] server = "http://" ->
                                  Wrap("Client: ", Wrap("apiserver: url: ", Sentinel(ErrEmptyHost)))
                            [] OTHER ->
                                  Wrap("Client: ", Wrap("apiserver: ",
                                       ErrorOf([kind |-> "url.Error", server |-> server]))))]_vars

C20_Witness ==
    /\ ctor.pc = "done"
    /\ ctor.invoked = <<WithAPIServer("http://test"), WithAPIServer("http://")>>
    /\ ctor.client.endpoint = <<"http://test">>
    /\ ctor.err = Wrap("Client: ", Wrap("apiserver: url: ", Sentinel(ErrEmptyHost)))

C20_WitnessScheme ==
    /\ ctor.pc = "done"
    /\ ctor.invoked = <<WithAPIServer("test://")>>
    /\ ctor.client.endpoint = <<defaultAPIServer>>
    /\ ctor.err = Wrap("Client: ", Wrap("apiserver: url: ", Sentinel(ErrIncorrectScheme)))

C20_WitnessParse ==
    /\ ctor.pc = "done"
    /\ ctor.invoked = <<WithAPIServer("")>>
    /\ ctor.client.endpoint = <<defaultAPIServer>>
    /\ ctor.err = Wrap("Client: ", Wrap("apiserver: ", ErrorOf([kind |-> "url.Error", server |-> ""])))

(***************************************************************************)
(* Claims about the constructed client (SpecNew)                           *)
(***************************************************************************)
\* NewClient has returned a client
Constructed == ctor.pc = "done" /\ ctor.result # NoClient

\* the positions of the options of the given kind in options
OptionsOfKind(options, kind) == {i \in 1..Len(options) : options[i].opt = kind}

\* the greatest element of a non-empty set of numbers
Last(S) == CHOOSE i \in S : \A j \in S : j <= i

\* the base address: the server of the last WithAPIServer option, the
\* default server when there is none
BaseAddress(options) ==
    IF OptionsOfKind(options, "WithAPIServer") = {} THEN defaultAPIServer
    ELSE options[Last(OptionsOfKind(options, "WithAPIServer"))].server

\* C21: the endpoint of a client NewClient returns is the base address (the
\* server of the last WithAPIServer option, or the default server) followed
\* by "/bot", the token and "/", the token occurring once, whatever the
\* number of options and their order; while the options run the endpoint is
\* a bare base address, and a failed NewClient leaves no client.
C21_EndpointHasTokenOnce ==
    /\ Constructed =>
          /\ ctor.result.endpoint =
               <<BaseAddress(ctor.options)>> \o <<"/bot">> \o ctor.token \o <<"/">>
          /\ client = ctor.result
          /\ \A o \in {ctor.options[i] : i \in 1..Len(ctor.options)} : ~IsErr(OptionError(o))
    /\ ctor.pc = "loop" => Len(ctor.client.endpoint) = 1 /\ ~Occurs(<<"/bot">>, ctor.client.endpoint)
    /\ (ctor.pc = "done" /\ IsErr(ctor.err)) =>
          (ctor.result = NoClient /\ ~Occurs(<<"/bot">>, ctor.client.endpoint))

C21_Witness ==
    /\ Constructed
    /\ ctor.options = <<WithAPIServer("http://test"), WithHTTPClient("mock")>>
    /\ ctor.token = <<"4", "2", ":", "A", "-", "b", "_", "7">>
    /\ ctor.result.endpoint = <<"http://test", "/bot", "4", "2", ":", "A", "-", "b", "_", "7", "/">>

C21_WitnessLastServer ==
    /\ Constructed
    /\ ctor.options = <<WithAPIServer("http://test"), WithAPIServer("https://test")>>
    /\ ctor.result.endpoint = <<"https://test", "/bot">> \o ctor.token \o <<"/">>

\* the transport: the one of the last WithHTTPClient option, the default
\* transport when there is none
Transport(options) ==
    IF OptionsOfKind(options, "WithHTTPClient") = {} THEN defaultHTTPClient
    ELSE options[Last(OptionsOfKind(options, "WithHTTPClient"))].http

\* C22: the transport of a client NewClient returns is not nil: it is the one
\* given by the last WithHTTPClient option, or the default transport when no
\* such option was given; NewClient given WithHTTPClient(nil) among the
\* options it invokes returns ErrHTTPClientNil and no client.
C22_TransportNeverNil ==
    /\ Constructed =>
          /\ ctor.result.http # "nil"
          /\ ctor.result.http = Transport(ctor.options)
    /\ (ctor.pc = "done" /\ ctor.invoked # <<>>
          /\ ctor.invoked[Len(ctor.invoked)] = WithHTTPClient("nil")) =>
          /\ ctor.err = Wrap("Client: ", Sentinel(ErrHTTPClientNil))
          /\ ctor.result = NoClient
          /\ client = NoClient

C22_Witness ==
    /\ Constructed
    /\ ctor.options = <<WithAPIServer("http://test")>>
    /\ ctor.result.http = defaultHTTPClient

C22_WitnessNil ==
    /\ ctor.pc = "done"
    /\ ctor.options = <<WithHTTPClient("mock"), WithHTTPClient("nil")>>
    /\ ctor.err = Wrap("Client: ", Sentinel(ErrHTTPClientNil))
    /\ ctor.result = NoClient

C22_WitnessSupplied ==
    /\ Constructed
    /\ ctor.options = <<WithHTTPClient("mock"), WithAPIServer("http://test")>>
    /\ ctor.result.http = "mock"

(***************************************************************************)
(* Claims about the HTTP request (Spec)                                    *)
(***************************************************************************)
\* the operation name each client operation posts to
OperationName(op) ==
    CASE op = "GetMe" -> "getMe"
      [] op = "SendMessage" -> "sendMessage"
      [] op = "EditMessage" -> "editMessageText"
      [] op = "DeleteMessage" -> "deleteMessage"

\* C23: a client operation that reaches the transport has built one HTTP
\* request, a POST with the content type application/json to the client's
\* endpoint followed by the name of the operation (getMe, sendMessage,
\* editMessageText, deleteMessage) and to no other operation's name; GetMe
\* sends no body, the other three send the JSON of their request, which has
\* passed Validate; the transport is called once.
C23_OnePostPerOperation ==
    \A c \in Callers :
        /\ (call[c].op \in ClientOps /\ call[c].httpReq # NoRequest) =>
              /\ call[c].httpReq.Method = "POST"
              /\ call[c].httpReq.ContentType = "application/json"
              /\ call[c].httpReq.URL = client.endpoint \o <<OperationName(call[c].op)>>
              /\ \A op \in ClientOps \ {call[c].op} :
                    call[c].httpReq.URL # client.endpoint \o <<OperationName(op)>>
              /\ IF call[c].op = "GetMe"
                 THEN call[c].httpReq.Body = NoBody
                 ELSE /\ AllRulesHold(call[c].built)
                      /\ call[c].httpReq.Body = [kind |-> "json", json |-> Marshal(call[c].built)]
              /\ call[c].doCount = (IF call[c].pc = "send" THEN 0 ELSE 1)
        /\ (call[c].op \in ClientOps /\ call[c].httpReq = NoRequest) => call[c].doCount = 0

C23_Witness ==
    \E c \in Callers :
        /\ call[c].op = "EditMessage"
        /\ call[c].pc = "done"
        /\ call[c].doCount = 1
        /\ client.endpoint = <<"http://test", "/bot", "1", ":", "a", "/">>
        /\ call[c].httpReq.Method = "POST"
        /\ call[c].httpReq.URL = <<"http://test", "/bot", "1", ":", "a", "/", "editMessageText">>
        /\ call[c].httpReq.Body =
             [kind |-> "json",
              json |-> [chat_id |-> 1, message_id |-> 1, text |-> 1, parse_mode |-> "HTML"]]

C23_WitnessGetMe ==
    \E c \in Callers :
        /\ call[c].op = "GetMe"
        /\ call[c].pc = "recv"
        /\ call[c].httpReq.URL = client.endpoint \o <<"getMe">>
        /\ call[c].httpReq.Body = NoBody

(***************************************************************************)
(* Claims about concurrent callers (SpecConc)                              *)
(***************************************************************************)
\* what a finished call of c returned is what its own arguments and its own
\* transport answer determine
OwnOutcome(c) ==
    call[c].pc = "done" =>
        /\ call[c].httpReq # NoRequest =>
              call[c].httpReq.URL[Len(call[c].httpReq.URL) - 1] = "/"
        /\ call[c].op \in ClientOps =>
              /\ call[c].httpReq # NoRequest =>
                    call[c].httpReq.URL = client.endpoint \o <<OperationName(call[c].op)>>
              /\ IF IsErr(call[c].err)
                 THEN /\ call[c].err.cause = UnderlyingCause(c)
                      /\ call[c].result = FailResult(call[c].op)
                 ELSE /\ Decodes(c) /\ call[c].body.ok = "true"
                      /\ call[c].result = Decoded(call[c].body.result, call[c].tval.type)
        /\ call[c].op = "API" =>
              IF call[c].body = NoBody THEN IsErr(call[c].err)
              ELSE IF ~Decodes(c)
              THEN call[c].err = Wrap("response: json: ", ErrorOf([kind |-> DecodeCauseKind(call[c].body)]))
              ELSE IF call[c].body.ok # "true"
              THEN call[c].err.cause.kind = "ResponseError"
                   /\ call[c].err.cause.Description = call[c].body.description
              ELSE call[c].err = NoErr
                   /\ call[c].tval = Decoded(call[c].body.result, call[c].tval.type)

\* C24: no step of any call, by whichever caller and whether the call
\* succeeds or fails, changes the client's endpoint or transport; a step
\* changes the call of one caller only, and what a call returns is determined
\* by its own arguments and its own transport answer, whatever the other
\* callers do in between.
C24_NoSharedMutableState ==
    [][/\ client' = client
       /\ \A c \in DOMAIN call :
             call'[c] # call[c] => \A d \in DOMAIN call \ {c} : call'[d] = call[d]
       /\ \A c \in DOMAIN call : OwnOutcome(c)']_vars

\* two calls in flight at once, and one of them finished while the other
\* was waiting for the transport
C24_Witness ==
    /\ call["c1"].pc = "done"
    /\ call["c1"].op = "SendMessage"
    /\ call["c1"].err.cause.kind = "ResponseError"
    /\ call["c2"].pc = "recv"
    /\ call["c2"].op = "GetMe"
    /\ call["c2"].body = BodyObject("true", "user", 0, "", 0)

(***************************************************************************)
(* Claims about the order of the checks in API (Spec)                      *)
(***************************************************************************)
\* C25: API checks the request body before the response target.  A non-nil
\* request body that is not a pointer to a struct or bool gives the error
\* "validate: req" with the sentinel of its shape, also when the response
\* target is invalid as well; with a nil request body an invalid response
\* target gives "validate: resp" with the sentinel of the target's shape; in
\* both cases no HTTP request is built and the transport is not called.
C25_RequestCheckedBeforeTarget ==
    \A c \in Callers :
        call[c].op = "API" =>
            /\ (call[c].req.kind # "nil" /\ BadTarget(call[c].req)) =>
                  /\ call[c].pc = "done"
                  /\ call[c].err = Wrap("validate: req ", Sentinel(TargetSentinel(call[c].req)))
                  /\ call[c].httpReq = NoRequest
                  /\ call[c].doCount = 0
            /\ (call[c].req.kind = "nil" /\ BadTarget(call[c].target)) =>
                  /\ call[c].pc = "done"
                  /\ call[c].err = Wrap("validate: resp ", Sentinel(TargetSentinel(call[c].target)))
                  /\ call[c].httpReq = NoRequest
                  /\ call[c].doCount = 0

C25_Witness ==
    \E c \in Callers :
        /\ call[c].op = "API"
        /\ call[c].pc = "done"
        /\ call[c].req = AnyInt
        /\ call[c].target = AnyNil
        /\ call[c].err = Wrap("validate: req ", Sentinel(ErrValueNotPtr))
        /\ call[c].doCount = 0

C25_WitnessNilRequest ==
    \E c \in Callers :
        /\ call[c].op = "API"
        /\ call[c].pc = "done"
        /\ call[c].req = AnyNil
        /\ call[c].target = AnyNil
        /\ call[c].err = Wrap("validate: resp ", Sentinel(ErrValueNil))
        /\ call[c].doCount = 0

(***************************************************************************)
(* Claims about the message constructors (SpecMade)                        *)
(***************************************************************************)
\* the field an option assigns and the value it assigns to it
OptionField(o) ==
    CASE o.opt = "func" -> o.field
      [] o.opt \in {"ParseModeSendOption", "ParseModeEditOption"} -> "ParseMode"
      [] o.opt = "MessageThreadIDSendOption" -> "MessageThreadID"
      [] o.opt = "DisableWebPagePreviewSendOption" -> "DisableWebPagePreview"
      [] o.opt = "DisableNotificationSendOption" -> "DisableNotification"
      [] o.opt = "ProtectContentSendOption" -> "ProtectContent"

OptionArgument(o) ==
    CASE o.opt = "func" -> o.value
      [] o.opt \in {"ParseModeSendOption", "ParseModeEditOption"} -> o.mode
      [] o.opt = "MessageThreadIDSendOption" -> o.id
      [] OTHER -> o.flag

Writers(opts, field) == {i \in 1..Len(opts) : OptionField(opts[i]) = field}

\* what the last option assigning the field left in it; its zero value when
\* no option assigns it
LastWritten(opts, field, zero) ==
    IF Writers(opts, field) = {} THEN zero
    ELSE OptionArgument(opts[Last(Writers(opts, field))])

\* the message the call is to describe: the positional arguments, and for
\* every other field what the last option assigning it wrote
ExpectedMessage ==
    LET base == [ChatID |-> made.chatID, Text |-> made.text,
                 ParseMode |-> LastWritten(made.opts, "ParseMode", "")]
    IN IF made.fn = "NewSendMessage"
       THEN Tag("SendMessage",
                [BaseMessage |-> base,
                 MessageThreadID |-> LastWritten(made.opts, "MessageThreadID", 0),
                 DisableWebPagePreview |-> LastWritten(made.opts, "DisableWebPagePreview", FALSE),
                 DisableNotification |-> LastWritten(made.opts, "DisableNotification", FALSE),
                 ProtectContent |-> LastWritten(made.opts, "ProtectContent", FALSE)])
       ELSE Tag("EditMessage", [MessageID |-> made.messageID, BaseMessage |-> base])

MadePrefix == IF made.fn = "NewSendMessage" THEN "SendMessage: " ELSE "EditMessage: "

\* C26: NewSendMessage and NewEditMessage return a message exactly when the
\* message made of the positional arguments and, for every other field, of
\* the last option assigning it passes Validate; the returned message is
\* that message with no error, so ChatID, Text and MessageID are the
\* positional arguments whatever the options assigned to them; otherwise
\* they return nil and the Validate error wrapped with the message's name.
C26_ArgumentsAfterOptions ==
    made.fn # "none" =>
        IF Validate(ExpectedMessage) = nil
        THEN /\ made.msg = ExpectedMessage
             /\ made.err = NoErr
        ELSE /\ made.msg = NilValue
             /\ made.err = Wrap(MadePrefix, Sentinel(Validate(ExpectedMessage)))

\* options assigned other values to ChatID and Text
C26_Witness ==
    /\ made.fn = "NewSendMessage"
    /\ made.opts = <<FuncOption("ChatID", 0), FuncOption("Text", 0)>>
    /\ made.msg # NilValue
    /\ made.msg.v.BaseMessage.ChatID = 1
    /\ made.msg.v.BaseMessage.Text = 1

\* two options assign the same field
C26_WitnessLaterWins ==
    /\ made.fn = "NewSendMessage"
    /\ made.opts = <<ParseModeSendOption("test"), ParseModeSendOption("HTML")>>
    /\ made.msg # NilValue
    /\ made.msg.v.BaseMessage.ParseMode = "HTML"

\* an option assigned a valid MessageID, the positional one is invalid
C26_WitnessEditError ==
    /\ made.fn = "NewEditMessage"
    /\ made.opts = <<FuncOption("MessageID", 1)>>
    /\ made.messageID = 0
    /\ made.msg = NilValue
    /\ made.err = Wrap("EditMessage: ", Sentinel(ErrIncorrectMessageID))

(***************************************************************************)
(* Claims about the command dispatcher (SpecCmdFair)                       *)
(***************************************************************************)
\* what the arguments of the process say, read off them and the Commander
RootParse == Parse(cmdr.cmds[rootCmd].flag, cmdr.osArgs)

CommandGiven == RootParse.err = nil /\ RootParse.args # <<>>

CommandName == TokenText(Head(RootParse.args))

CommandKnown == CommandGiven /\ CommandName \in DOMAIN cmdr.cmds /\ CommandName # rootCmd

CommandArgs == Tail(RootParse.args)

CommandHelpOnly == CommandKnown /\ CommandArgs = <<>> /\ DOMAIN cmdr.cmds[CommandName].flag # {}

CommandParse == Parse(cmdr.cmds[CommandName].flag, CommandArgs)

\* neither a root flag error or help request, nor a missing, unknown or
\* reserved command, nor a command with flags and no arguments, nor a
\* command flag error
RunReached == CommandKnown /\ ~CommandHelpOnly /\ CommandParse.err = nil

ExitStatusRule ==
    /\ Len(cmdr.exit) <= 1
    /\ cmdr.invoked <= 1
    /\ cmdr.invoked = 1 => RunReached
    /\ cmdr.pc = "exited" =>
          /\ Len(cmdr.exit) = 1
          /\ cmdr.exit[1] \in {0, 1}
          /\ cmdr.exit[1] = 0 => cmdr.invoked = 1 /\ cmdr.ran = nil
          /\ (~RunReached \/ cmdr.ran # nil) => cmdr.exit[1] = 1
          /\ ~RunReached => cmdr.invoked = 0

\* C27: Run always ends in os.Exit; the status is 0 only when the run
\* function of the selected command was called and returned no error, and 1
\* on a root flag error or help request, with no command, with an unknown
\* command or the reserved name "_", with a command that declares flags and
\* has no arguments, on a command flag error and on a run function error;
\* the run function is called at most once, and only after the root flags
\* and the command flags were parsed without error.
C27_RunExits == []ExitStatusRule /\ <>(cmdr.pc = "exited")

C27_Witness ==
    /\ cmdr.pc = "exited"
    /\ cmdr.osArgs = <<Word("send"), Flag("chat_id"), Word("1")>>
    /\ cmdr.name = "send"
    /\ cmdr.invoked = 1
    /\ cmdr.exit = <<0>>

\* a command that declares flags, given no arguments
C27_WitnessCommandHelp ==
    /\ cmdr.pc = "exited"
    /\ cmdr.osArgs = <<Flag("token"), Word("1"), Word("send")>>
    /\ cmdr.output = "commandHelp"
    /\ cmdr.invoked = 0
    /\ cmdr.exit = <<1>>

\* the reserved name, registered as a command
C27_WitnessReservedName ==
    /\ cmdr.pc = "exited"
    /\ rootCmd \in DOMAIN cmdr.cmds /\ cmdr.cmds[rootCmd].run = "func"
    /\ cmdr.osArgs = <<Word(rootCmd)>>
    /\ cmdr.output = "rootError"
    /\ cmdr.exit = <<1>>

\* the run function returned an error
C27_WitnessRunError ==
    /\ cmdr.pc = "exited"
    /\ cmdr.osArgs = <<Word("me")>>
    /\ cmdr.invoked = 1
    /\ cmdr.ran # nil
    /\ cmdr.exit = <<1>>

====
